---- MODULE Spec2Model ----
(***************************************************************************)
(* pixiv3-rs: the api_endpoints! macro (pixiv3-rs-proc), the operations it *)
(* generates on AppPixivAPI, and the paginator streams built on them.      *)
(*                                                                         *)
(* Three specifications share the module:                                  *)
(*   SpecEmit  the macro expansion, one endpoint per step;                 *)
(*   SpecCall  one invocation of a generated base operation;               *)
(*   Spec      one run of a generated `<name>_iter` stream against a       *)
(*             consumer and a server (SpecLive: the same with fairness).   *)
(***************************************************************************)
EXTENDS Integers, Sequences, FiniteSets, TLC

VARIABLES
    hosts,            \* AppPixivAPI.hosts of the client
    \* ---- macro expansion (api_endpoints) ----
    feature_stream,   \* cfg(feature = "stream") of the build
    input,            \* the macro's input: endpoint token runs and `;`
    parsed,           \* syn::parse::<ApiEndpoints>(input): Ok(endpoints) or Err
    emit_pc,          \* "parse" | "loop" | "done"
    emit_idx,         \* number of endpoints the for loop has consumed
    expanded,         \* the TokenStream2 built so far, one element per item
    \* ---- one call of a generated base operation ----
    call_pc,          \* "idle" | "bodies" | "request" | "returned"
    call_op,          \* the generated operation being run
    call_args,        \* caller's arguments, by parameter name
    call_auth,        \* the with_auth argument
    call_idx,         \* number of section bodies executed
    call_maps,        \* the section maps (kv_pairs), by section kind
    call_evals,       \* default expressions evaluated so far
    call_seen,        \* inputs the transmute expressions were evaluated on
    call_pushes,      \* push calls made so far
    call_req,         \* the do_api_request call made, if any
    call_result,      \* what the operation returned, if it has
    \* ---- one run of a generated paginator ----
    pc,               \* generator position
    observe,          \* whether the history variables below are recorded
    iter_op,          \* the generated `<name>_iter` operation
    iter_args,        \* caller's arguments
    with_auth,        \* caller's with_auth flag
    result_items,     \* items of `result` the for loop has not yielded yet
    next_url,         \* the local `next_url`
    pulling,          \* a consumer pull (poll_next) is waiting for an answer
    events,           \* what the consumer has received, in order
    requests,         \* requests issued, in order
    pages,            \* pages decoded from successful requests, in order
    pulls,            \* number of pulls the consumer has begun
    failure,          \* the error the failed request ended with, if one did
    \* ---- one client (AppPixivAPI) used by concurrent callers ----
    tm,               \* AppPixivAPI.token_manager: the TokenManager variant
    saved,            \* RefreshToken.access_token_and_expires_at
    update_lock,      \* RefreshToken.update_lock: the caller holding it, if any
    now,              \* the clock, in ticks
    th,               \* the callers: position and locals of each one's call
    \* ---- one call of parse_response_into ----
    response,         \* its input: the type T, the status, the body read
    parse_result,     \* what it returned, if it has
    \* ---- one call of ParamSpec::parse ----
    tokens,           \* its input: the tokens of one entry of a section
    param_spec,       \* what it returned, if it has
    \* ---- the lifetime elaboration of one endpoint's parameter types ----
    param_types,      \* the types as declared, in declaration order
    elaborated        \* per application: the folded types and the fn's generics

emitVars == <<feature_stream, input, parsed, emit_pc, emit_idx, expanded>>
callVars == <<call_pc, call_op, call_args, call_auth, call_idx, call_maps,
              call_evals, call_seen, call_pushes, call_req, call_result>>
iterVars == <<pc, observe, iter_op, iter_args, with_auth, result_items,
              next_url, pulling, events, requests, pages, pulls, failure>>
cliVars == <<tm, saved, update_lock, now, th>>
decVars == <<response, parse_result>>
paramVars == <<tokens, param_spec>>
foldVars == <<param_types, elaborated>>
vars == <<hosts, emitVars, callVars, iterVars, cliVars, decVars, paramVars, foldVars>>

(***************************************************************************)
(* Bounds of the model.                                                    *)
(***************************************************************************)
MaxEndpoints == 2   \* endpoints in one macro invocation
MaxListLen == 2     \* elements of a slice argument
MaxItems == 2       \* items on one page
MaxRequests == 3    \* requests of one observed paginator run
MaxEndPulls == 2    \* observed pulls of a stream that has ended
MaxThreads == 2     \* concurrent callers of one client
MaxTicks == 2       \* clock ticks of one run
MaxClauseTokens == 5  \* tokens after the type of a section entry
MaxParams == 2      \* parameters of an endpoint whose types are elaborated

(***************************************************************************)
(* Option<T>.                                                              *)
(***************************************************************************)
None == <<>>
Some(x) == <<x>>
IsSome(o) == o # <<>>
Unwrap(o) == o[1]

(***************************************************************************)
(* syn::Type, as far as the macro looks into it.                           *)
(***************************************************************************)
TPath(name, args) == [k |-> "path", name |-> name, args |-> args]
TRef(lifetime, elem) == [k |-> "ref", lifetime |-> lifetime, elem |-> elem]
TSlice(elem) == [k |-> "slice", elem |-> elem]

T_u64 == TPath("u64", <<>>)
T_str == TRef(None, TPath("str", <<>>))
T_strings == TRef(None, TSlice(TPath("String", <<>>)))
T_Option(t) == TPath("Option", <<t>>)

(***************************************************************************)
(* Runtime values of arguments and expressions.                            *)
(***************************************************************************)
VNone == [tag |-> "none"]
VSome(v) == [tag |-> "some", v |-> v]
VStr(s) == [tag |-> "str", s |-> s]
VU64(n) == [tag |-> "u64", n |-> n]
VBool(b) == [tag |-> "bool", b |-> b]
VEnum(ty, variant) == [tag |-> "enum", ty |-> ty, variant |-> variant]
VList(items) == [tag |-> "list", items |-> items]
VApp(f, arg) == [tag |-> "app", f |-> f, arg |-> arg]

(***************************************************************************)
(* The AST of the DSL: ParamSpec, ParamSection, Paged, ApiEndpoint.        *)
(***************************************************************************)
ParamSpec(name, key_override, ty, default, transmute) ==
    [name |-> name, key_override |-> key_override, ty |-> ty,
     default |-> default, transmute |-> transmute]
ParamSection(kind, entries) == [kind |-> kind, entries |-> entries]
Paged(field, item_type, next_url_ident) ==
    [field |-> field, item_type |-> item_type, next_url |-> next_url_ident]
ApiEndpoint(name, return_type, paged_clause, method, url, sections) ==
    [name |-> name, return_type |-> return_type, paged |-> paged_clause,
     method |-> method, url |-> url, sections |-> sections]

\* Transmute expressions of the declared endpoints, and one opaque function.
X_unwrap_or_empty == [f |-> "unwrap_or", sep |-> ""]     \* x.unwrap_or(&[])
X_map_join(sep) == [f |-> "map_join", sep |-> sep]       \* x.map(|t| t.join(sep))
X_opaque(id) == [f |-> id, sep |-> ""]                   \* any other expression of x

\* Parameters declared in aapi.rs.
P_user_id == ParamSpec("user_id", None, T_u64, None, None)
P_illust_id == ParamSpec("illust_id", None, T_u64, None, None)
P_type == ParamSpec("type_", Some("type"), T_Option(TPath("IllustType", <<>>)),
                    Some(VEnum("IllustType", "Illust")), None)
P_filter == ParamSpec("filter", None, T_Option(TPath("Filter", <<>>)), None, None)
P_filter_ios == ParamSpec("filter", None, T_Option(TPath("Filter", <<>>)),
                          Some(VEnum("Filter", "ForIos")), None)
P_restrict == ParamSpec("restrict", None, T_Option(TPath("Restrict", <<>>)),
                        Some(VEnum("Restrict", "Public")), None)
P_offset == ParamSpec("offset", None, T_Option(T_str), None, None)
P_seed == ParamSpec("seed_illust_ids", Some("seed_illust_ids[]"),
                    T_Option(T_strings), None, Some(X_unwrap_or_empty))
P_tags == ParamSpec("tags", Some("tags[]"), T_Option(T_strings), None,
                    Some(X_map_join(" ")))
P_viewed == ParamSpec("viewed", Some("viewed[]"), T_Option(T_strings), None,
                      Some(X_unwrap_or_empty))
P_setting == ParamSpec("setting", Some("show_ai"), T_str, None, None)
\* The full form of the grammar, `name @ "key": Type = default => transmute`.
P_limit == ParamSpec("limit", Some("lim"), T_Option(T_u64), Some(VU64(30)),
                     Some(X_opaque("clamp")))
P_note == ParamSpec("note", None, T_Option(T_str), Some(VStr("0")), None)

E_user_detail ==
    ApiEndpoint("user_detail", "UserInfoDetailed", None, "GET", "/v1/user/detail",
                <<ParamSection("params", <<P_user_id, P_filter_ios>>)>>)
E_user_illusts ==
    ApiEndpoint("user_illusts", "UserIllustrations",
                Some(Paged("illusts", "IllustrationInfo", None)),
                "GET", "/v1/user/illusts",
                <<ParamSection("params", <<P_user_id, P_type, P_filter, P_offset>>)>>)
E_illust_related ==
    ApiEndpoint("illust_related", "ParsedJson", None, "GET", "/v2/illust/related",
                <<ParamSection("params", <<P_illust_id, P_filter_ios, P_seed, P_offset,
                                         P_viewed>>)>>)
E_illust_bookmark_add ==
    ApiEndpoint("illust_bookmark_add", "ParsedJson", None, "POST",
                "/v2/illust/bookmark/add",
                <<ParamSection("data", <<P_illust_id, P_restrict, P_tags>>)>>)
E_user_edit_ai_show_settings ==
    ApiEndpoint("user_edit_ai_show_settings", "EmptyObject", None, "POST",
                "/v1/user/ai-show-settings/edit",
                <<ParamSection("data", <<P_setting>>)>>)
\* An endpoint using every form of the grammar: both sections, a cursor field
\* named with `@`, a parameter with default and transmute.
E_feed ==
    ApiEndpoint("feed", "Feed", Some(Paged("entries", "Entry", Some("cursor"))),
                "GET", "/v1/feed",
                <<ParamSection("params", <<P_limit, P_offset>>),
                  ParamSection("data", <<P_note>>)>>)

Endpoints == {E_user_detail, E_user_illusts, E_illust_related,
              E_illust_bookmark_add, E_user_edit_ai_show_settings, E_feed}
PagedEndpoints == {e \in Endpoints : IsSome(e.paged)}
EndpointNamed(name) == CHOOSE e \in Endpoints : e.name = name

\* ApiEndpoint::find_section
find_section(endpoint, kind) ==
    LET hits == SelectSeq(endpoint.sections, LAMBDA s : s.kind = kind)
    IN IF hits = <<>> THEN None ELSE Some(hits[1])

(***************************************************************************)
(* ExplicitLifetimeFolder: syn's Fold with fold_type_reference overridden. *)
(***************************************************************************)
\* Faulty variant: the counter is not reset, it goes on from the items emitted
ExplicitLifetimeFolder_kept == [counter |-> Len(expanded), lifetimes |-> <<>>]

\* ExplicitLifetimeFolder::new
ExplicitLifetimeFolder_new == [counter |-> 0, lifetimes |-> <<>>]

RECURSIVE fold_type(_, _)
RECURSIVE fold_types(_, _)

\* Returns the rewritten reference and the folder after the call.
fold_type_reference(ty_ref, folder) ==
    IF IsSome(ty_ref.lifetime)
    THEN [ty |-> ty_ref,
          folder |-> [folder EXCEPT !.lifetimes = Append(@, Unwrap(ty_ref.lifetime))]]
    ELSE LET counter == folder.counter + 1
             lt == "'a" \o ToString(counter)
             inner == fold_type(ty_ref.elem,
                                [counter |-> counter,
                                 lifetimes |-> Append(folder.lifetimes, lt)])
         IN [ty |-> TRef(Some(lt), inner.ty), folder |-> inner.folder]

\* The generic arguments of a path, left to right.
fold_types(tys, folder) ==
    IF tys = <<>> THEN [tys |-> <<>>, folder |-> folder]
    ELSE LET head == fold_type(Head(tys), folder)
             rest == fold_types(Tail(tys), head.folder)
         IN [tys |-> <<head.ty>> \o rest.tys, folder |-> rest.folder]

\* Faulty variant: a type that is not a reference is not traversed
fold_type_top_only(ty, folder) ==
    IF ty.k = "ref" THEN fold_type_reference(ty, folder)
    ELSE [ty |-> ty, folder |-> folder]

\* Fold::fold_type: syn's default, which dispatches on the kind of type and
\* folds the types inside it.
fold_type(ty, folder) ==
    CASE ty.k = "ref" -> fold_type_reference(ty, folder)
      [] ty.k = "slice" ->
            LET inner == fold_type(ty.elem, folder)
            IN [ty |-> TSlice(inner.ty), folder |-> inner.folder]
      [] OTHER ->
            LET inner == fold_types(ty.args, folder)
            IN [ty |-> TPath(ty.name, inner.tys), folder |-> inner.folder]

(***************************************************************************)
(* Code generation: api_endpoints, one endpoint.                           *)
(***************************************************************************)
\* The statements of the block generated for one ParamSpec.
StmtDefault(name, default) == [stmt |-> "default", name |-> name, expr |-> default]
StmtTransmute(name, transmute) == [stmt |-> "transmute", name |-> name, expr |-> transmute]
StmtPush(kind, key, name) == [stmt |-> "push", kind |-> kind, key |-> key, name |-> name]

\* Faulty variant: the key_override is ignored
key_of_name_only(spec) == spec.name

\* key: the key_override literal, else stringify!(name)
key_of(spec) ==
    IF IsSome(spec.key_override) THEN Unwrap(spec.key_override) ELSE spec.name

\* Faulty variant: `else if`: a declared transmute replaces the default statement
body_for_this_transmute_only(kind, spec) ==
    (IF IsSome(spec.transmute)
        THEN <<StmtTransmute(spec.name, Unwrap(spec.transmute))>>
        ELSE IF IsSome(spec.default)
                THEN <<StmtDefault(spec.name, Unwrap(spec.default))>> ELSE <<>>)
    \o <<StmtPush(kind, key_of(spec), spec.name)>>

\* body_for_this: unwrap_or_else(default), then transmute, then push
body_for_this(kind, spec) ==
    (IF IsSome(spec.default)
        THEN <<StmtDefault(spec.name, Unwrap(spec.default))>> ELSE <<>>)
    \o (IF IsSome(spec.transmute)
        THEN <<StmtTransmute(spec.name, Unwrap(spec.transmute))>> ELSE <<>>)
    \o <<StmtPush(kind, key_of(spec), spec.name)>>

\* The two nested loops over sections and entries, as one pass over the
\* entries in section order; acc collects fn_params, section_bodies, fn_args
\* and carries the folder.
RECURSIVE section_entries(_, _, _)
section_entries(kind, entries, acc) ==
    IF entries = <<>> THEN acc
    ELSE LET spec == Head(entries)
             folded == fold_type(spec.ty, acc.folder)
         IN section_entries(kind, Tail(entries),
               [fn_params |-> Append(acc.fn_params,
                                     [name |-> spec.name, ty |-> folded.ty]),
                section_inits |-> acc.section_inits,
                section_bodies |-> Append(acc.section_bodies,
                                          body_for_this(kind, spec)),
                fn_args |-> Append(acc.fn_args, spec.name),
                folder |-> folded.folder])

RECURSIVE section_loop(_, _)
section_loop(sections, acc) ==
    IF sections = <<>> THEN acc
    ELSE LET section == Head(sections)
             done == section_entries(section.kind, section.entries, acc)
         IN section_loop(Tail(sections),
               [done EXCEPT !.section_inits = Append(@, section.kind)])

endpoint_parts(endpoint) ==
    section_loop(endpoint.sections,
                 [fn_params |-> <<>>, section_inits |-> <<>>,
                  section_bodies |-> <<>>, fn_args |-> <<>>,
                  folder |-> ExplicitLifetimeFolder_new])

\* expanded_endpoint: the async fn of the endpoint
expanded_endpoint(endpoint) ==
    LET parts == endpoint_parts(endpoint)
    IN [item |-> "fn", is_async |-> TRUE, name |-> endpoint.name,
        generics |-> <<"'a0">> \o parts.folder.lifetimes,
        fn_params |-> parts.fn_params,
        return_type |-> endpoint.return_type,
        method |-> endpoint.method, url |-> endpoint.url,
        section_inits |-> parts.section_inits,
        section_bodies |-> parts.section_bodies,
        params |-> IF IsSome(find_section(endpoint, "params"))
                      THEN Some("params") ELSE None,
        data |-> IF IsSome(find_section(endpoint, "data"))
                    THEN Some("data") ELSE None]

\* iter_fn: the stream-returning fn of a paged endpoint
iter_fn(endpoint) ==
    LET parts == endpoint_parts(endpoint)
        paged_clause == Unwrap(endpoint.paged)
    IN [item |-> "fn", is_async |-> FALSE, name |-> endpoint.name \o "_iter",
        generics |-> <<"'a0">> \o parts.folder.lifetimes,
        fn_params |-> parts.fn_params,
        item_type |-> paged_clause.item_type,
        base |-> endpoint.name, fn_args |-> parts.fn_args,
        item_field |-> paged_clause.field,
        next_url_field |-> IF IsSome(paged_clause.next_url)
                              THEN Unwrap(paged_clause.next_url) ELSE "next_url",
        return_type |-> endpoint.return_type, url |-> endpoint.url]

\* Faulty variant: the cfg(feature = "stream") gate is missing
emits_iter_no_cfg(stream, endpoint) == IsSome(endpoint.paged)

\* Whether the loop body emits iter_fn for the endpoint.
emits_iter(stream, endpoint) == stream /\ IsSome(endpoint.paged)

\* One iteration of `for endpoint in endpoints.endpoints`: what it appends.
expand_one(stream, endpoint) ==
    <<expanded_endpoint(endpoint)>>
    \o (IF emits_iter(stream, endpoint) THEN <<iter_fn(endpoint)>> ELSE <<>>)

(***************************************************************************)
(* Runtime: values, kv_pairs, and the body of a generated base operation.  *)
(***************************************************************************)
\* strum's IntoStaticStr of the parameter enums
IntoStaticStr(ty, variant) ==
    CASE ty = "Filter" /\ variant = "ForIos" -> "for_ios"
      [] ty = "IllustType" /\ variant = "Illust" -> "illust"
      [] ty = "IllustType" /\ variant = "Manga" -> "manga"
      [] ty = "Restrict" /\ variant = "Public" -> "public"
      [] ty = "Restrict" /\ variant = "Private" -> "private"

EnumVariants(ty) ==
    CASE ty = "Filter" -> {"ForIos"}
      [] ty = "IllustType" -> {"Illust", "Manga"}
      [] ty = "Restrict" -> {"Public", "Private"}

\* The string a present scalar contributes to a map.
into_value(v) ==
    CASE v.tag = "enum" -> VStr(IntoStaticStr(v.ty, v.variant))
      [] v.tag = "u64" -> VStr(ToString(v.n))
      [] v.tag = "bool" -> VStr(IF v.b THEN "true" ELSE "false")
      [] OTHER -> v

RECURSIVE push_each(_, _, _)
push_each(content, key, items) ==
    IF items = <<>> THEN content
    ELSE push_each(Append(content, [key |-> key, value |-> VStr(Head(items))]),
                   key, Tail(items))

\* KVPairs::push: an absent value adds nothing, a slice adds one pair per
\* element, any other value adds one pair.
KVPairs_push(content, key, value) ==
    CASE value.tag = "none" -> content
      [] value.tag = "some" /\ value.v.tag = "list" ->
            push_each(content, key, value.v.items)
      [] value.tag = "some" ->
            Append(content, [key |-> key, value |-> into_value(value.v)])
      [] value.tag = "list" -> push_each(content, key, value.items)
      [] OTHER -> Append(content, [key |-> key, value |-> into_value(value)])

RECURSIVE join(_, _)
join(items, sep) ==
    IF items = <<>> THEN ""
    ELSE IF Len(items) = 1 THEN items[1]
    ELSE items[1] \o sep \o join(Tail(items), sep)

\* The value of a transmute expression on the current binding of its name.
eval_transmute(expr, x) ==
    CASE expr.f = "unwrap_or" -> IF x.tag = "none" THEN VList(<<>>) ELSE x.v
      [] expr.f = "map_join" ->
            IF x.tag = "none" THEN VNone ELSE VSome(VStr(join(x.v.items, expr.sep)))
      [] OTHER -> VApp(expr.f, x)

\* `name.unwrap_or_else(|| default)`: the closure runs only on None.
unwrap_or_else(x, default) == IF x.tag = "none" THEN default ELSE x.v
\* Faulty variant: `unwrap_or(default)`: the default is evaluated before the call
evaluates_default_eagerly(x) == TRUE
evaluates_default(x) == x.tag = "none"

\* One statement of a block on the frame [env, maps, evals, seen, pushes].
exec_stmt(st, fr) ==
    CASE st.stmt = "default" ->
            [fr EXCEPT !.env[st.name] = unwrap_or_else(@, st.expr),
                       !.evals = IF evaluates_default(fr.env[st.name])
                                    THEN Append(@, [name |-> st.name, expr |-> st.expr])
                                    ELSE @]
      [] st.stmt = "transmute" ->
            [fr EXCEPT !.env[st.name] = eval_transmute(st.expr, @),
                       !.seen = Append(@, [name |-> st.name, input |-> fr.env[st.name]])]
      [] OTHER ->
            [fr EXCEPT !.maps[st.kind] = KVPairs_push(@, st.key, fr.env[st.name]),
                       !.pushes = Append(@, [kind |-> st.kind, key |-> st.key,
                                             value |-> fr.env[st.name]])]

RECURSIVE exec_block(_, _)
exec_block(block, fr) ==
    IF block = <<>> THEN fr ELSE exec_block(Tail(block), exec_stmt(Head(block), fr))

\* The arguments bound to the parameter names.
bind(op, args) ==
    [n \in {op.fn_params[i].name : i \in 1..Len(op.fn_params)} |->
        args[CHOOSE i \in 1..Len(op.fn_params) : op.fn_params[i].name = n]]

\* section_inits: one empty map per section kind
empty_maps(op) ==
    [k \in {op.section_inits[i] : i \in 1..Len(op.section_inits)} |-> <<>>]

\* A `{ ... }` block: its `let`s shadow the arguments only inside it.
run_body(op, args, i, fr) ==
    LET out == exec_block(op.section_bodies[i],
                          [env |-> bind(op, args), maps |-> fr.maps,
                           evals |-> fr.evals, seen |-> fr.seen,
                           pushes |-> fr.pushes])
    IN [maps |-> out.maps, evals |-> out.evals, seen |-> out.seen,
        pushes |-> out.pushes]

RECURSIVE run_bodies(_, _, _, _)
run_bodies(op, args, i, fr) ==
    IF i > Len(op.section_bodies) THEN fr
    ELSE run_bodies(op, args, i + 1, run_body(op, args, i, fr))

\* The do_api_request call of a base operation.
api_request(method, url, headers, params, data, auth) ==
    [method |-> method, url |-> url, headers |-> headers, params |-> params,
     data |-> data, with_auth |-> auth]

\* Faulty variant: the form map is passed for every endpoint with a query map
base_request_data_as_params(op, host, maps, auth) ==
    api_request(op.method, host \o op.url, None,
                IF IsSome(op.params) THEN Some(maps[Unwrap(op.params)]) ELSE None,
                IF IsSome(op.params) THEN Some(maps[Unwrap(op.params)]) ELSE None,
                auth)

base_request(op, host, maps, auth) ==
    api_request(op.method, host \o op.url, None,
                IF IsSome(op.params) THEN Some(maps[Unwrap(op.params)]) ELSE None,
                IF IsSome(op.data) THEN Some(maps[Unwrap(op.data)]) ELSE None,
                auth)

(***************************************************************************)
(* Arguments a caller can pass, by declared type.                          *)
(***************************************************************************)
Strings(n) == [i \in 1..n |-> "t" \o ToString(i)]

RECURSIVE ArgValues(_)
ArgValues(ty) ==
    CASE ty.k = "ref" /\ ty.elem.k = "slice" ->
            {VList(Strings(n)) : n \in 0..MaxListLen}
      [] ty.k = "ref" -> {VStr("s")}
      [] ty.k = "path" /\ ty.name = "Option" ->
            {VNone} \cup {VSome(v) : v \in ArgValues(ty.args[1])}
      [] ty.k = "path" /\ ty.name = "u64" -> {VU64(7)}
      [] OTHER -> {VEnum(ty.name, v) : v \in EnumVariants(ty.name)}

RECURSIVE ArgLists(_)
ArgLists(fn_params) ==
    IF fn_params = <<>> THEN {<<>>}
    ELSE {<<v>> \o rest : v \in ArgValues(Head(fn_params).ty),
                          rest \in ArgLists(Tail(fn_params))}

Hosts == {"https://app-api.pixiv.net", "https://proxy.example"}

\* The calls a caller can make: a generated operation and its arguments.
BaseCalls ==
    UNION {{[op |-> expanded_endpoint(e), args |-> a] :
               a \in ArgLists(expanded_endpoint(e).fn_params)} : e \in Endpoints}
IterCalls ==
    UNION {{[op |-> iter_fn(e), args |-> a] :
               a \in ArgLists(iter_fn(e).fn_params)} : e \in PagedEndpoints}

(***************************************************************************)
(* The client: TokenManager, Result and PixivError values, callers.        *)
(***************************************************************************)
TM_NoAuth == [kind |-> "NoAuth"]
TM_AccessToken(access_token) == [kind |-> "AccessToken", access_token |-> access_token]
TM_RefreshToken(refresh_token) == [kind |-> "RefreshToken", refresh_token |-> refresh_token]

Ok(v) == [k |-> "ok", v |-> v]
Err(e) == [k |-> "err", e |-> e]
Panicked == [k |-> "panic"]

E_NoAuth == [kind |-> "NoAuth"]
E_Reqwest == [kind |-> "Reqwest"]
E_BadAccessToken(access_token) == [kind |-> "BadAccessToken", access_token |-> access_token]
E_ErrResponse(body) == [kind |-> "ErrResponse", body |-> body]
E_RateLimited(body) == [kind |-> "RateLimited", body |-> body]
E_NotFound(body) == [kind |-> "NotFound", body |-> body]
E_Serde(body) == [kind |-> "Serde", body |-> body]

\* Callers of one client: tasks that share `&self`.
Threads == 1..MaxThreads

\* A caller that is not inside a call.
ThreadIdle ==
    [pc |-> "idle", kind |-> "none", call |-> None, dispatched |-> None,
     tok_calls |-> 0, locked |-> FALSE, refreshed |-> 0, token |-> None,
     sent |-> <<>>, http |-> None, decoded |-> 0, result |-> None]

(***************************************************************************)
(* The parts of the state a specification does not exercise.               *)
(***************************************************************************)
ClientIdle ==
    /\ tm = TM_NoAuth
    /\ saved = None
    /\ update_lock = None
    /\ now = 0
    /\ th = [t \in Threads |-> ThreadIdle]

DecodeIdle ==
    /\ response = None
    /\ parse_result = None

ParamIdle ==
    /\ tokens = <<>>
    /\ param_spec = None

FoldIdle ==
    /\ param_types = <<>>
    /\ elaborated = <<>>

EmitIdle ==
    /\ feature_stream = FALSE
    /\ input = <<>>
    /\ parsed = [ok |-> TRUE, endpoints |-> <<>>]
    /\ emit_pc = "idle"
    /\ emit_idx = 0
    /\ expanded = <<>>

CallIdle ==
    /\ call_pc = "idle"
    /\ call_op = None
    /\ call_args = <<>>
    /\ call_auth = FALSE
    /\ call_idx = 0
    /\ call_maps = <<>>
    /\ call_evals = <<>>
    /\ call_seen = <<>>
    /\ call_pushes = <<>>
    /\ call_req = None
    /\ call_result = None

IterIdle ==
    /\ pc = "idle"
    /\ observe = TRUE
    /\ iter_op = None
    /\ iter_args = <<>>
    /\ with_auth = FALSE
    /\ result_items = <<>>
    /\ next_url = None
    /\ pulling = FALSE
    /\ events = <<>>
    /\ requests = <<>>
    /\ pages = <<>>
    /\ pulls = 0
    /\ failure = None

(***************************************************************************)
(* SpecEmit: api_endpoints on one macro invocation.                        *)
(***************************************************************************)
RECURSIVE SeqsUpTo(_, _)
SeqsUpTo(S, n) ==
    IF n = 0 THEN {<<>>}
    ELSE LET shorter == SeqsUpTo(S, n - 1)
         IN shorter \cup {Append(q, x) : q \in shorter, x \in S}

\* The macro's input, cut where ApiEndpoints::parse cuts it: the token run of
\* an endpoint that ApiEndpoint::parse accepts, a token run it rejects, or
\* a `;`.
WellFormed(endpoint) == [tok |-> "endpoint", well_formed |-> TRUE, endpoint |-> endpoint]
Malformed == [tok |-> "endpoint", well_formed |-> FALSE, endpoint |-> <<>>]
Semi == [tok |-> ";", well_formed |-> FALSE, endpoint |-> <<>>]
Inputs ==
    {ts \in SeqsUpTo({WellFormed(e) : e \in Endpoints} \cup {Malformed, Semi},
                     MaxEndpoints + 2) :
        Cardinality({i \in 1..Len(ts) : ts[i] # Semi}) <= MaxEndpoints}

\* Faulty variant: tokens that are not an endpoint are skipped
RECURSIVE parse_terminated_skipping(_, _)
parse_terminated_skipping(ts, acc) ==
    IF ts = <<>> THEN [ok |-> TRUE, endpoints |-> acc]
    ELSE parse_terminated_skipping(Tail(ts),
            IF Head(ts).well_formed THEN Append(acc, Head(ts).endpoint) ELSE acc)

\* input.parse_terminated(ApiEndpoint::parse, Token![;]):
\*   loop { if input.is_empty() { break }  value = parser(input)?
\*          if input.is_empty() { break }  punct = input.parse()? }
\* The first error ends the parse with that error.
RECURSIVE parse_terminated(_, _)
parse_terminated(ts, acc) ==
    IF ts = <<>> THEN [ok |-> TRUE, endpoints |-> acc]
    ELSE IF ~Head(ts).well_formed THEN [ok |-> FALSE, endpoints |-> <<>>]
    ELSE IF Tail(ts) = <<>> THEN [ok |-> TRUE, endpoints |-> Append(acc, Head(ts).endpoint)]
    ELSE IF ts[2] # Semi THEN [ok |-> FALSE, endpoints |-> <<>>]
    ELSE parse_terminated(Tail(Tail(ts)), Append(acc, Head(ts).endpoint))

\* syn::parse::<ApiEndpoints>(input)
ApiEndpoints_parse(parts) == parse_terminated(parts, <<>>)

EmitInit ==
    /\ hosts = "https://app-api.pixiv.net"
    /\ feature_stream \in BOOLEAN
    /\ input \in Inputs
    /\ parsed = [ok |-> TRUE, endpoints |-> <<>>]
    /\ emit_pc = "parse"
    /\ emit_idx = 0
    /\ expanded = <<>>
    /\ CallIdle
    /\ IterIdle
    /\ ClientIdle
    /\ DecodeIdle
    /\ ParamIdle
    /\ FoldIdle

\* Err(e) => return e.to_compile_error().into()
ParseErr ==
    /\ emit_pc = "parse"
    /\ ~ApiEndpoints_parse(input).ok
    /\ parsed' = ApiEndpoints_parse(input)
    /\ expanded' = <<[item |-> "compile_error"]>>
    /\ emit_pc' = "done"
    /\ UNCHANGED <<hosts, paramVars, foldVars, cliVars, decVars, feature_stream, input, emit_idx, callVars, iterVars>>

ParseOk ==
    /\ emit_pc = "parse"
    /\ ApiEndpoints_parse(input).ok
    /\ parsed' = ApiEndpoints_parse(input)
    /\ emit_pc' = "loop"
    /\ UNCHANGED <<hosts, paramVars, foldVars, cliVars, decVars, feature_stream, input, emit_idx, expanded, callVars, iterVars>>

\* one iteration of `for endpoint in endpoints.endpoints`
EmitEndpoint ==
    /\ emit_pc = "loop"
    /\ emit_idx < Len(parsed.endpoints)
    /\ expanded' = expanded \o expand_one(feature_stream, parsed.endpoints[emit_idx + 1])
    /\ emit_idx' = emit_idx + 1
    /\ UNCHANGED <<hosts, paramVars, foldVars, cliVars, decVars, feature_stream, input, parsed, emit_pc, callVars, iterVars>>

\* TokenStream::from(expanded)
EmitReturn ==
    /\ emit_pc = "loop"
    /\ emit_idx = Len(parsed.endpoints)
    /\ emit_pc' = "done"
    /\ UNCHANGED <<hosts, paramVars, foldVars, cliVars, decVars, feature_stream, input, parsed, emit_idx, expanded, callVars, iterVars>>

EmitNext == ParseErr \/ ParseOk \/ EmitEndpoint \/ EmitReturn

SpecEmit == EmitInit /\ [][EmitNext]_vars

(***************************************************************************)
(* SpecParam: ParamSpec::parse on the tokens of one entry of a section.    *)
(*                                                                         *)
(* A token is an identifier, a string literal, a punctuation character     *)
(* with its spacing (joint: the next token is a punctuation character that *)
(* follows at once), or the token run of one type or of one expression.    *)
(***************************************************************************)
Tk_Ident(s) == [t |-> "ident", s |-> s]
Tk_LitStr(s) == [t |-> "lit", s |-> s]
Tk_Punct(ch, joint) == [t |-> "punct", ch |-> ch, joint |-> joint]
Tk_Type(ty) == [t |-> "type", ty |-> ty]
Tk_Expr(e) == [t |-> "expr", e |-> e]

IsPunct(tk, ch) == tk.t = "punct" /\ tk.ch = ch

\* ParseStream::peek(Token![=]), peek2(Token![>]), peek(Token![=>]),
\* peek(Token![@]): the spacing of the last character is not looked at.
peek(ts, ch) == Len(ts) >= 1 /\ IsPunct(ts[1], ch)
peek2(ts, ch) == Len(ts) >= 2 /\ IsPunct(ts[2], ch)
peek_fat_arrow(ts) ==
    Len(ts) >= 2 /\ IsPunct(ts[1], "=") /\ ts[1].joint /\ IsPunct(ts[2], ">")

\* input.parse::<T>() of one token of kind t: the value and the rest
parse_one(ts, t) ==
    IF Len(ts) >= 1 /\ ts[1].t = t THEN Ok([v |-> ts[1], rest |-> Tail(ts)])
    ELSE Err("expected " \o t)

\* Faulty variant: a `=` starts a default clause whatever follows it
starts_default_no_lookahead(ts) == peek(ts, "=")

\* input.peek(Token![=]) && !input.peek2(Token![>])
starts_default(ts) == peek(ts, "=") /\ ~peek2(ts, ">")

\* The clauses after the type: default, then transmute.
parse_clauses(name, key_override, ty, ts) ==
    LET d == IF starts_default(ts) THEN parse_one(Tail(ts), "expr")
             ELSE Ok([v |-> <<>>, rest |-> ts])
    IN IF d.k = "err" THEN d
       ELSE LET ts2 == d.v.rest
                default == IF starts_default(ts) THEN Some(d.v.v.e) ELSE None
                x == IF peek_fat_arrow(ts2) THEN parse_one(Tail(Tail(ts2)), "expr")
                     ELSE Ok([v |-> <<>>, rest |-> ts2])
            IN IF x.k = "err" THEN x
               ELSE Ok([spec |-> ParamSpec(name, key_override, ty, default,
                                           IF peek_fat_arrow(ts2) THEN Some(x.v.v.e)
                                           ELSE None),
                        rest |-> x.v.rest])

\* ParamSpec::parse
ParamSpec_parse(ts) ==
    LET n == parse_one(ts, "ident")
    IN IF n.k = "err" THEN n
       ELSE LET at == peek(n.v.rest, "@")
                lit == IF at THEN parse_one(Tail(n.v.rest), "lit")
                       ELSE Ok([v |-> <<>>, rest |-> n.v.rest])
            IN IF lit.k = "err" THEN lit
               ELSE IF ~peek(lit.v.rest, ":") THEN Err("expected :")
               ELSE LET ty == parse_one(Tail(lit.v.rest), "type")
                    IN IF ty.k = "err" THEN ty
                       ELSE parse_clauses(n.v.v.s,
                                          IF at THEN Some(lit.v.v.s) ELSE None,
                                          ty.v.v.ty, ty.v.rest)

\* The entry as ParamSection::parse takes it: parse_terminated has the
\* entry end where the tokens end.
entry_parse(ts) ==
    LET r == ParamSpec_parse(ts)
    IN IF r.k = "err" THEN r
       ELSE IF r.v.rest # <<>> THEN Err("expected ,")
       ELSE Ok(r.v.spec)

\* The tokens the lexer can hand over: a joint character is followed by a
\* punctuation character.
Lexed(ts) ==
    \A i \in 1..Len(ts) :
       (ts[i].t = "punct" /\ ts[i].joint) => (i < Len(ts) /\ ts[i + 1].t = "punct")

ClauseTokens ==
    {Tk_Punct("=", TRUE), Tk_Punct("=", FALSE), Tk_Punct(">", FALSE),
     Tk_Expr("d"), Tk_Expr("t")}
EntryHeads ==
    {<<Tk_Ident("offset"), Tk_Punct(":", FALSE), Tk_Type(T_Option(T_str))>>,
     <<Tk_Ident("type_"), Tk_Punct("@", FALSE), Tk_LitStr("type"),
       Tk_Punct(":", FALSE), Tk_Type(T_u64)>>,
     <<Tk_Ident("offset"), Tk_Type(T_u64)>>}
EntryTokens ==
    {h \o c : h \in EntryHeads,
              c \in {q \in SeqsUpTo(ClauseTokens, MaxClauseTokens) : Lexed(q)}}

ParamInit ==
    /\ hosts = "https://app-api.pixiv.net"
    /\ EmitIdle
    /\ CallIdle
    /\ IterIdle
    /\ ClientIdle
    /\ DecodeIdle
    /\ FoldIdle
    /\ tokens \in EntryTokens
    /\ param_spec = None

ParseEntry ==
    /\ param_spec = None
    /\ param_spec' = Some(entry_parse(tokens))
    /\ UNCHANGED <<hosts, emitVars, callVars, iterVars, cliVars, decVars, foldVars, tokens>>

ParamNext == ParseEntry

SpecParam == ParamInit /\ [][ParamNext]_vars

(***************************************************************************)
(* SpecFold: the ExplicitLifetimeFolder of one endpoint on its parameter   *)
(* types, and once more on the types it has produced.                      *)
(***************************************************************************)
T_named(lifetime, elem) == TRef(Some(lifetime), elem)
ParamTypes ==
    {T_u64, T_str, T_Option(T_str), T_strings,
     TRef(None, T_str), TPath("HashMap", <<T_str, T_Option(T_str)>>),
     T_named("'x", TPath("str", <<>>)), T_named("'x", T_str),
     T_Option(T_named("'y", TSlice(T_str))),
     T_named("'a1", TPath("str", <<>>)), T_named("'a0", TPath("str", <<>>))}

\* An endpoint with one `params` section of parameters p1, p2, ... of the
\* types given.
EndpointOver(tys) ==
    ApiEndpoint("f", "ParsedJson", None, "GET", "/v1/f",
                <<ParamSection("params",
                     [i \in 1..Len(tys) |->
                         ParamSpec("p" \o ToString(i), None, tys[i], None, None)])>>)

\* The fn_params types and the generics of the fn generated for the endpoint.
elaborate(tys) ==
    LET f == expanded_endpoint(EndpointOver(tys))
    IN [tys |-> [i \in 1..Len(f.fn_params) |-> f.fn_params[i].ty],
        generics |-> f.generics]

FoldInit ==
    /\ hosts = "https://app-api.pixiv.net"
    /\ EmitIdle
    /\ CallIdle
    /\ IterIdle
    /\ ClientIdle
    /\ DecodeIdle
    /\ ParamIdle
    /\ param_types \in SeqsUpTo(ParamTypes, MaxParams)
    /\ elaborated = <<>>

\* The loop over the sections of the endpoint, with a new folder.
Elaborate ==
    /\ elaborated = <<>>
    /\ elaborated' = <<elaborate(param_types)>>
    /\ UNCHANGED <<hosts, emitVars, callVars, iterVars, cliVars, decVars, paramVars,
                   param_types>>

\* The same on an endpoint declared with the types of the first application.
ElaborateAgain ==
    /\ Len(elaborated) = 1
    /\ elaborated' = Append(elaborated, elaborate(elaborated[1].tys))
    /\ UNCHANGED <<hosts, emitVars, callVars, iterVars, cliVars, decVars, paramVars,
                   param_types>>

FoldNext == Elaborate \/ ElaborateAgain

SpecFold == FoldInit /\ [][FoldNext]_vars

(***************************************************************************)
(* SpecCall: one invocation of a generated base operation.                 *)
(***************************************************************************)
PixivErrors == {"Reqwest", "NoAuth", "RateLimited", "NotFound", "ErrResponse", "Serde"}

CallInit ==
    /\ hosts \in Hosts
    /\ EmitIdle
    /\ ParamIdle
    /\ FoldIdle
    /\ CallIdle
    /\ IterIdle
    /\ ClientIdle
    /\ DecodeIdle

\* The caller invokes the operation; url and the section maps are set up.
Invoke ==
    /\ call_pc = "idle"
    /\ \E call \in BaseCalls, auth \in BOOLEAN :
          /\ call_op' = Some(call.op)
          /\ call_args' = call.args
          /\ call_auth' = auth
          /\ call_maps' = empty_maps(call.op)
    /\ call_pc' = "bodies"
    /\ UNCHANGED <<hosts, paramVars, foldVars, cliVars, decVars, emitVars, iterVars, call_idx, call_evals, call_seen,
                   call_pushes, call_req, call_result>>

\* The block generated for the next ParamSpec.
SectionBody ==
    /\ call_pc = "bodies"
    /\ call_idx < Len(Unwrap(call_op).section_bodies)
    /\ LET fr == run_body(Unwrap(call_op), call_args, call_idx + 1,
                          [maps |-> call_maps, evals |-> call_evals,
                           seen |-> call_seen, pushes |-> call_pushes])
       IN /\ call_maps' = fr.maps
          /\ call_evals' = fr.evals
          /\ call_seen' = fr.seen
          /\ call_pushes' = fr.pushes
    /\ call_idx' = call_idx + 1
    /\ UNCHANGED <<hosts, paramVars, foldVars, cliVars, decVars, emitVars, iterVars, call_pc, call_op, call_args,
                   call_auth, call_req, call_result>>

\* self.do_api_request(method, &url, None, params, data, with_auth)
Dispatch ==
    /\ call_pc = "bodies"
    /\ call_idx = Len(Unwrap(call_op).section_bodies)
    /\ call_req' = Some(base_request(Unwrap(call_op), hosts, call_maps, call_auth))
    /\ call_pc' = "request"
    /\ UNCHANGED <<hosts, paramVars, foldVars, cliVars, decVars, emitVars, iterVars, call_op, call_args, call_auth,
                   call_idx, call_maps, call_evals, call_seen, call_pushes,
                   call_result>>

\* The request and the decoding end, in success or in an error.
Return ==
    /\ call_pc = "request"
    /\ call_result' \in {Some("Ok")} \cup {Some(e) : e \in PixivErrors}
    /\ call_pc' = "returned"
    /\ UNCHANGED <<hosts, paramVars, foldVars, cliVars, decVars, emitVars, iterVars, call_op, call_args, call_auth,
                   call_idx, call_maps, call_evals, call_seen, call_pushes,
                   call_req>>

CallNext == Invoke \/ SectionBody \/ Dispatch \/ Return

SpecCall == CallInit /\ [][CallNext]_vars

(***************************************************************************)
(* Spec: one run of a generated `<name>_iter` stream.                      *)
(*                                                                         *)
(* pc is the position of the try_stream! generator:                        *)
(*   "idle"   the operation has not been called                            *)
(*   "start"  the stream exists, the generator has not run                 *)
(*   "first"  awaiting self.<name>(args, with_auth)                        *)
(*   "loop"   suspended at `yield item`                                     *)
(*   "next"   awaiting self.visit_next_url(url, with_auth)                 *)
(*   "err"    `?` has sent the error and the generator has yet to return   *)
(*   "done"   the generator has returned                                   *)
(***************************************************************************)
Cursors == {"https://app-api.pixiv.net/v1/next?offset=30",
            "https://app-api.pixiv.net/v1/next?offset=60"}

\* The errors a request of the paginator is seen to fail with: one from
\* do_api_request, one from parse_response_into.
IterErrors == {"Reqwest", "RateLimited"}

EvItem(x) == [ev |-> "item", item |-> x]
EvErr(e) == [ev |-> "err", e |-> e]
EvEnd == [ev |-> "end"]

\* History variables are recorded in observed runs only.
Rec(hist, x) == IF observe THEN Append(hist, x) ELSE hist

\* The n items of the page the server sends next, each unlike any other.
PageItems(n) ==
    LET k == IF observe THEN Len(pages) + 1 ELSE 0
    IN [i \in 1..n |-> <<k, i>>]

\* A decoded return_type: the item field and the cursor field.
Page(op, items, cursor) ==
    (op.item_field :> items) @@ (op.next_url_field :> cursor)

\* AppPixivAPI::visit_next_url: the request it makes
visit_next_url(url, auth) == api_request("GET", url, None, None, None, auth)

\* The request of the base operation the paginator calls first.
first_request(op, host, args, auth) ==
    LET base == expanded_endpoint(EndpointNamed(op.base))
        fr == run_bodies(base, args, 1,
                         [maps |-> empty_maps(base), evals |-> <<>>,
                          seen |-> <<>>, pushes |-> <<>>])
    IN [req |-> base_request(base, host, fr.maps, auth),
        decode |-> base.return_type]

\* The follow-up request for a cursor.
next_request(op, url, auth) ==
    [req |-> visit_next_url(url, auth), decode |-> op.return_type]

\* Faulty variant: the None arm does not break
match_next_url_no_break(url) == IF IsSome(url) THEN "next" ELSE "loop"

\* Faulty variant: the sequence ends with the page at hand, cursor or not
match_next_url_ignored(url) == "done"

\* `match &next_url`: where the generator goes once the for loop has ended
match_next_url(url) == IF IsSome(url) THEN "next" ELSE "done"

\* Faulty variant: the items of a page are taken from the back
next_item_from_back(items) ==
    [item |-> items[Len(items)], rest |-> SubSeq(items, 1, Len(items) - 1)]

\* `for item in result.<item_field>`: the item yielded next, and the rest
next_item(items) == [item |-> Head(items), rest |-> Tail(items)]

\* Faulty variant: the follow-up request is sent without authentication
follow_up_auth_dropped(auth) == FALSE

\* the with_auth argument of the follow-up request
follow_up_auth(auth) == auth

\* Faulty variant: the stream is not lazy: the first request is made by the call
requests_at_call_eager(op, host, args, auth) == <<first_request(op, host, args, auth)>>

\* requests made by calling `<name>_iter`, before any pull
requests_at_call(op, host, args, auth) == <<>>

\* Faulty variant: an error does not end the generator: it goes on with the loop
pc_after_error_continue == "loop"

\* `?` on a failed request: the error is sent, then the generator returns
pc_after_error == "err"

Init ==
    /\ hosts \in Hosts
    /\ EmitIdle
    /\ ParamIdle
    /\ FoldIdle
    /\ CallIdle
    /\ IterIdle
    /\ ClientIdle
    /\ DecodeIdle

\* The caller invokes `<name>_iter`; the stream is returned, nothing has run.
IterCall ==
    /\ pc = "idle"
    /\ \E call \in IterCalls, auth \in BOOLEAN :
          /\ iter_op' = Some(call.op)
          /\ iter_args' = call.args
          /\ with_auth' = auth
          /\ requests' = IF observe
                            THEN requests_at_call(call.op, hosts, call.args, auth)
                            ELSE requests
    /\ pc' = "start"
    /\ UNCHANGED <<hosts, paramVars, foldVars, cliVars, decVars, emitVars, callVars, observe, result_items, next_url,
                   pulling, events, pages, pulls, failure>>

\* First pull: the generator starts and awaits the base operation.
PullFirst ==
    /\ pc = "start"
    /\ ~pulling
    /\ pulling' = TRUE
    /\ pulls' = IF observe THEN pulls + 1 ELSE pulls
    /\ requests' = Rec(requests, first_request(Unwrap(iter_op), hosts, iter_args, with_auth))
    /\ pc' = "first"
    /\ UNCHANGED <<hosts, paramVars, foldVars, cliVars, decVars, emitVars, callVars, observe, iter_op, iter_args,
                   with_auth, result_items, next_url, events, pages, failure>>

\* A pull while the for loop has items left: the next one is yielded.
PullYield ==
    /\ pc = "loop"
    /\ ~pulling
    /\ result_items # <<>>
    /\ pulls' = IF observe THEN pulls + 1 ELSE pulls
    /\ events' = Rec(events, EvItem(next_item(result_items).item))
    /\ result_items' = next_item(result_items).rest
    /\ UNCHANGED <<hosts, paramVars, foldVars, cliVars, decVars, emitVars, callVars, pc, observe, iter_op, iter_args,
                   with_auth, next_url, pulling, requests, pages, failure>>

\* A pull once the for loop has ended, cursor present: the follow-up request
\* is issued and awaited.
PullFetch ==
    /\ pc = "loop"
    /\ ~pulling
    /\ result_items = <<>>
    /\ match_next_url(next_url) = "next"
    /\ pulling' = TRUE
    /\ pulls' = IF observe THEN pulls + 1 ELSE pulls
    /\ requests' = Rec(requests, next_request(Unwrap(iter_op), Unwrap(next_url),
                                              follow_up_auth(with_auth)))
    /\ pc' = "next"
    /\ UNCHANGED <<hosts, paramVars, foldVars, cliVars, decVars, emitVars, callVars, observe, iter_op, iter_args,
                   with_auth, result_items, next_url, events, pages, failure>>

\* A pull once the for loop has ended, cursor absent: break, the stream ends.
PullBreak ==
    /\ pc = "loop"
    /\ ~pulling
    /\ result_items = <<>>
    /\ match_next_url(next_url) # "next"
    /\ pulls' = IF observe THEN pulls + 1 ELSE pulls
    /\ events' = IF match_next_url(next_url) = "done" THEN Rec(events, EvEnd) ELSE events
    /\ pc' = match_next_url(next_url)
    /\ UNCHANGED <<hosts, paramVars, foldVars, cliVars, decVars, emitVars, callVars, observe, iter_op, iter_args,
                   with_auth, result_items, next_url, pulling, requests, pages, failure>>

\* A pull after an error was yielded: the generator returns.
PullAfterErr ==
    /\ pc = "err"
    /\ ~pulling
    /\ pulls' = IF observe THEN pulls + 1 ELSE pulls
    /\ events' = Rec(events, EvEnd)
    /\ pc' = "done"
    /\ UNCHANGED <<hosts, paramVars, foldVars, cliVars, decVars, emitVars, callVars, observe, iter_op, iter_args,
                   with_auth, result_items, next_url, pulling, requests, pages, failure>>

EndPulls == Len(SelectSeq(events, LAMBDA e : e = EvEnd))

\* A pull of a stream that has ended: AsyncStream answers None at once.
PullDone ==
    /\ pc = "done"
    /\ ~pulling
    /\ EndPulls < MaxEndPulls
    /\ pulls' = IF observe THEN pulls + 1 ELSE pulls
    /\ events' = Rec(events, EvEnd)
    /\ UNCHANGED <<hosts, paramVars, foldVars, cliVars, decVars, emitVars, callVars, pc, observe, iter_op, iter_args,
                   with_auth, result_items, next_url, pulling, requests, pages, failure>>

\* The pages the server may answer the pending request with.  An observed
\* run is cut after MaxRequests requests: the last page carries no cursor.
ServerCursors ==
    {None} \cup (IF observe /\ Len(requests) >= MaxRequests THEN {}
                 ELSE {Some(c) : c \in Cursors})

\* The awaited request succeeds with a page that has items: the first one
\* is yielded and answers the pull.
RespondItems ==
    /\ pc \in {"first", "next"}
    /\ \E n \in 1..MaxItems, cursor \in ServerCursors :
          /\ pages' = Rec(pages, Page(Unwrap(iter_op), PageItems(n), cursor))
          /\ next_url' = cursor
          /\ events' = Rec(events, EvItem(next_item(PageItems(n)).item))
          /\ result_items' = next_item(PageItems(n)).rest
    /\ pc' = "loop"
    /\ pulling' = FALSE
    /\ UNCHANGED <<hosts, paramVars, foldVars, cliVars, decVars, emitVars, callVars, observe, iter_op, iter_args,
                   with_auth, requests, pulls, failure>>

\* The awaited request succeeds with an empty page that has a cursor: the
\* follow-up request is issued within the same pull.
RespondEmptyFetch ==
    /\ pc \in {"first", "next"}
    /\ \E cursor \in ServerCursors :
          /\ match_next_url(cursor) = "next"
          /\ pages' = Rec(pages, Page(Unwrap(iter_op), <<>>, cursor))
          /\ next_url' = cursor
          /\ requests' = Rec(requests, next_request(Unwrap(iter_op), Unwrap(cursor),
                                                    follow_up_auth(with_auth)))
    /\ result_items' = <<>>
    /\ pc' = "next"
    /\ UNCHANGED <<hosts, paramVars, foldVars, cliVars, decVars, emitVars, callVars, observe, iter_op, iter_args,
                   with_auth, pulling, events, pulls, failure>>

\* The awaited request succeeds with an empty page without cursor: break.
RespondEmptyBreak ==
    /\ pc \in {"first", "next"}
    /\ match_next_url(None) # "next"
    /\ pages' = Rec(pages, Page(Unwrap(iter_op), <<>>, None))
    /\ next_url' = None
    /\ result_items' = <<>>
    /\ events' = IF match_next_url(None) = "done" THEN Rec(events, EvEnd) ELSE events
    /\ pc' = match_next_url(None)
    /\ pulling' = FALSE
    /\ UNCHANGED <<hosts, paramVars, foldVars, cliVars, decVars, emitVars, callVars, observe, iter_op, iter_args,
                   with_auth, requests, pulls, failure>>

\* The awaited request fails: `?` yields the error, which answers the pull.
RespondErr ==
    /\ pc \in {"first", "next"}
    /\ \E e \in IterErrors :
          /\ failure' = IF observe THEN Some(e) ELSE failure
          /\ events' = Rec(events, EvErr(e))
    /\ pc' = pc_after_error
    /\ pulling' = FALSE
    /\ UNCHANGED <<hosts, paramVars, foldVars, cliVars, decVars, emitVars, callVars, observe, iter_op, iter_args,
                   with_auth, result_items, next_url, requests, pages, pulls>>

Next ==
    \/ IterCall
    \/ PullFirst
    \/ PullYield
    \/ PullFetch
    \/ PullBreak
    \/ PullAfterErr
    \/ PullDone
    \/ RespondItems
    \/ RespondEmptyFetch
    \/ RespondEmptyBreak
    \/ RespondErr

Spec == Init /\ [][Next]_vars

\* The same run, unobserved, with a consumer that keeps pulling and a client
\* whose requests all end (reqwest is built with a timeout).
LiveInit ==
    /\ hosts \in Hosts
    /\ EmitIdle
    /\ ParamIdle
    /\ FoldIdle
    /\ CallIdle
    /\ ClientIdle
    /\ DecodeIdle
    /\ pc = "idle"
    /\ observe = FALSE
    /\ iter_op = None
    /\ iter_args = <<>>
    /\ with_auth = FALSE
    /\ result_items = <<>>
    /\ next_url = None
    /\ pulling = FALSE
    /\ events = <<>>
    /\ requests = <<>>
    /\ pages = <<>>
    /\ pulls = 0
    /\ failure = None

SpecLive == LiveInit /\ [][Next]_vars /\ WF_vars(Next)

(***************************************************************************)
(* SpecDecode: parse_response_into on one response.                        *)
(*                                                                         *)
(* A body is described by what serde_json makes of it: whether it is JSON, *)
(* whether it is an object with an `error` key, and which struct's         *)
(* required fields it has ("none": an object without them).                *)
(***************************************************************************)
Body(json, error, fields_of) == [json |-> json, error |-> error, fields_of |-> fields_of]

StructTypes == {"UserInfoDetailed", "UserIllustrations"}
DecodeTypes == StructTypes \cup {"EmptyObject", "ParsedJson"}

Bodies ==
    {Body(FALSE, FALSE, "none")}
    \cup {Body(TRUE, e, f) : e \in BOOLEAN, f \in StructTypes \cup {"none"}}

StatusCodes == {200, 400, 404, 429, 500}

\* response.text(): the body, or a reqwest error while reading it
Texts == {Ok(b) : b \in Bodies} \cup {Err(E_Reqwest)}

\* serde_json::from_str::<T>(body) succeeds
from_str(T, body) ==
    CASE T = "ParsedJson" -> body.json
      [] T = "EmptyObject" -> body.json /\ ~body.error /\ body.fields_of = "none"
      [] OTHER -> body.json /\ body.fields_of = T

is_error_response(body) == from_str("ParsedJson", body) /\ body.error

parse_into(T, body) ==
    IF from_str(T, body) THEN Ok([ty |-> T, body |-> body]) ELSE Err(E_Serde(body))

\* Faulty variant: the body is decoded first, the status is looked at on failure
parse_response_into_decode_first(T, status, text) ==
    IF text.k = "err" THEN [out |-> text, parsed |-> FALSE]
    ELSE IF from_str(T, text.v) THEN [out |-> parse_into(T, text.v), parsed |-> TRUE]
    ELSE IF status = 429 THEN [out |-> Err(E_RateLimited(text.v)), parsed |-> TRUE]
    ELSE IF status = 404 THEN [out |-> Err(E_NotFound(text.v)), parsed |-> TRUE]
    ELSE [out |-> Err(E_Serde(text.v)), parsed |-> TRUE]

\* parse_response_into::<T>: `out` is what it returns, `parsed` whether it
\* called parse_into.
parse_response_into(T, status, text) ==
    IF text.k = "err" THEN [out |-> text, parsed |-> FALSE]
    ELSE LET body == text.v
         IN CASE status = 429 -> [out |-> Err(E_RateLimited(body)), parsed |-> FALSE]
              [] status = 404 -> [out |-> Err(E_NotFound(body)), parsed |-> FALSE]
              [] OTHER ->
                   LET r == parse_into(T, body)
                   IN [out |-> IF r.k = "ok" THEN r
                               ELSE IF is_error_response(r.e.body)
                                       THEN Err(E_ErrResponse(r.e.body))
                                       ELSE Err(E_Serde(r.e.body)),
                       parsed |-> TRUE]

DecodeInit ==
    /\ hosts \in Hosts
    /\ EmitIdle
    /\ ParamIdle
    /\ FoldIdle
    /\ CallIdle
    /\ IterIdle
    /\ ClientIdle
    /\ response \in {Some([ty |-> T, status |-> st, text |-> tx]) :
                        T \in DecodeTypes, st \in StatusCodes, tx \in Texts}
    /\ parse_result = None

ParseResponse ==
    /\ response # None
    /\ parse_result = None
    /\ parse_result' = Some(parse_response_into(Unwrap(response).ty,
                                                 Unwrap(response).status,
                                                 Unwrap(response).text))
    /\ UNCHANGED <<hosts, paramVars, foldVars, emitVars, callVars, iterVars, cliVars, response>>

DecodeNext == ParseResponse

SpecDecode == DecodeInit /\ [][DecodeNext]_vars

(***************************************************************************)
(* SpecClient: callers sharing one AppPixivAPI.  Each caller runs one call *)
(* at a time: a generated base operation, or get_access_token itself.      *)
(*                                                                         *)
(* th[t].pc is the await the caller's call is suspended at:                *)
(*   "idle"        not inside a call                                       *)
(*   "tm_lock"     update_lock.lock().await                                *)
(*   "tm_refresh"  request.send().await of try_refresh_token, lock held    *)
(*   "http"        req.send().await of do_http_request                     *)
(*   "returned"    the call has returned (or panicked)                     *)
(***************************************************************************)
DEFAULT_EXPIRES_IN == 3600
TOKEN_REFRESH_SAFE_MARGIN == 300

\* Utc::now(), in seconds: a tick of the clock is half an hour.
Utc_now == now * 1800

AccessTokens == {"t0", "t1\n"}
TokenManagers ==
    {TM_NoAuth, TM_RefreshToken("r0")} \cup {TM_AccessToken(a) : a \in AccessTokens}

\* What the OAuth server answers a refresh request with.
RefreshReplies ==
    {[k |-> "transport"], [k |-> "unparsable"]}
    \cup {[k |-> "token", access_token |-> a, expires_in |-> x] :
             a \in {"a1"}, x \in {None, Some(0), Some(900), Some(100)}}

\* TokenManager::try_get_saved_token
try_get_saved_token(access_token_and_expires_at, utc_now) ==
    IF IsSome(access_token_and_expires_at)
       /\ Unwrap(access_token_and_expires_at).expires_at > utc_now
    THEN Ok(Unwrap(access_token_and_expires_at).access_token)
    ELSE Err(<<>>)

\* TokenManager::try_refresh_token, from the server's reply on.  The u64
\* subtraction overflows for a lifetime below the margin: a panic in a
\* debug build, and in a release build the wrapped Duration makes
\* `Utc::now() + ..` panic.
try_refresh_token(reply, utc_now) ==
    CASE reply.k = "transport" -> Err(E_Reqwest)
      [] reply.k = "unparsable" -> Err(E_Serde(Body(FALSE, FALSE, "none")))
      [] OTHER ->
           LET sec == IF IsSome(reply.expires_in) /\ Unwrap(reply.expires_in) > 0
                         THEN Unwrap(reply.expires_in) ELSE DEFAULT_EXPIRES_IN
           IN IF sec < TOKEN_REFRESH_SAFE_MARGIN THEN Panicked
              ELSE Ok([access_token |-> reply.access_token,
                       expires_at |-> utc_now + (sec - TOKEN_REFRESH_SAFE_MARGIN)])

\* HeaderMap::insert
Insert(headers, name, value) ==
    {h \in headers : h.name # name} \cup {[name |-> name, value |-> value]}

\* do_api_request: the headers before the Authorization header
app_headers(host, headers) ==
    LET h0 == IF IsSome(headers) THEN Unwrap(headers) ELSE {}
        h1 == IF host # "https://app-api.pixiv.net"
                 THEN Insert(h0, "host", "app-api.pixiv.net") ELSE h0
    IN IF \E h \in h1 : h.name = "user-agent" THEN h1
       ELSE Insert(Insert(Insert(h1, "app-os", "ios"), "app-os-version", "14.6"),
                   "user-agent", "PixivIOSApp/7.13.3 (iOS 14.6; iPhone13,2)")

\* HV::from_str(&format!("Bearer {}", access_token)) succeeds: the token
\* holds no byte a header value cannot hold.
HV_from_str_ok(access_token) == access_token \notin {"t1\n"}

\* do_http_request: the request it sends
do_http_request(method, url, headers, params, data) ==
    [method |-> method, url |-> url, headers |-> headers,
     query |-> params, form |-> data]

Returned(rec, res) == [rec EXCEPT !.pc = "returned", !.result = Some(res)]

\* self.do_http_request(method, url, Some(headers), params, data).await
SendHttp(rec, headers) ==
    LET d == Unwrap(rec.dispatched)
    IN [rec EXCEPT !.pc = "http",
                   !.sent = Append(@, do_http_request(d.method, d.url, headers,
                                                      d.params, d.data))]

\* The caller's code after get_access_token has returned `res`.
after_token(rec, host, res) ==
    LET r == [rec EXCEPT !.token = Some(res)]
    IN IF rec.kind = "token" \/ res.k # "ok" THEN Returned(r, res)
       ELSE IF ~HV_from_str_ok(res.v) THEN Returned(r, Err(E_BadAccessToken(res.v)))
       ELSE SendHttp(r, Insert(app_headers(host, Unwrap(rec.dispatched).headers),
                               "authorization", "Bearer " \o res.v))

\* Faulty variant: the token is fetched for every request
needs_token_always(auth) == TRUE

\* `if with_auth { .. self.get_access_token().await? .. }`
needs_token(auth) == auth

\* Faulty variant: a client without authentication hands out an empty token
match_self_no_auth_empty(manager) ==
    CASE manager.kind = "NoAuth" -> Some(Ok(""))
      [] manager.kind = "AccessToken" -> Some(Ok(manager.access_token))
      [] OTHER -> None

\* Faulty variant: the access token is handed out as the header value
match_self_bearer(manager) ==
    CASE manager.kind = "NoAuth" -> Some(Err(E_NoAuth))
      [] manager.kind = "AccessToken" -> Some(Ok("Bearer " \o manager.access_token))
      [] OTHER -> None

\* get_access_token, `match self`: the arms that return at once
match_self(manager) ==
    CASE manager.kind = "NoAuth" -> Some(Err(E_NoAuth))
      [] manager.kind = "AccessToken" -> Some(Ok(manager.access_token))
      [] OTHER -> None

\* Faulty variant: the saved token is not looked at again under the lock
double_check_skipped(access_token_and_expires_at, utc_now) == Err(<<>>)

\* get_access_token: the second try_get_saved_token, made under the lock
double_check(access_token_and_expires_at, utc_now) ==
    try_get_saved_token(access_token_and_expires_at, utc_now)

\* Faulty variant: a request that failed in transport is sent once more
after_http_retry(rec, res) ==
    LET r == [rec EXCEPT !.http = Some(res)]
    IN IF res.k = "err"
          THEN (IF Len(rec.sent) < 2 THEN SendHttp(r, rec.sent[1].headers)
                ELSE Returned(r, res))
          ELSE Returned([r EXCEPT !.decoded = @ + 1],
                        parse_response_into(Unwrap(rec.call).return_type,
                                            res.v.status, res.v.text).out)

\* The generated operation after do_api_request has returned `res`:
\* `.await?`, then parse_response_into(r).await
after_http(rec, res) ==
    LET r == [rec EXCEPT !.http = Some(res)]
    IN IF res.k = "err" THEN Returned(r, res)
       ELSE Returned([r EXCEPT !.decoded = @ + 1],
                     parse_response_into(Unwrap(rec.call).return_type,
                                         res.v.status, res.v.text).out)

\* Faulty variant: the refresh request is sent without taking update_lock
get_access_token_unlocked(rec, host, manager, access_token_and_expires_at, utc_now) ==
    LET r == [rec EXCEPT !.tok_calls = @ + 1]
        arm == match_self(manager)
        first == try_get_saved_token(access_token_and_expires_at, utc_now)
    IN IF IsSome(arm) THEN after_token(r, host, Unwrap(arm))
       ELSE IF first.k = "ok" THEN after_token(r, host, first)
       ELSE [r EXCEPT !.pc = "tm_refresh", !.refreshed = @ + 1]

\* get_access_token up to its first await: `match self`, and for a
\* RefreshToken manager the first try_get_saved_token.
get_access_token(rec, host, manager, access_token_and_expires_at, utc_now) ==
    LET r == [rec EXCEPT !.tok_calls = @ + 1]
        arm == match_self(manager)
        first == try_get_saved_token(access_token_and_expires_at, utc_now)
    IN IF IsSome(arm) THEN after_token(r, host, Unwrap(arm))
       ELSE IF first.k = "ok" THEN after_token(r, host, first)
       ELSE [r EXCEPT !.pc = "tm_lock"]

\* The calls the callers make: user_detail(7, None), a GET with params, and
\* user_edit_ai_show_settings("s"), a POST with data.
ClientCalls ==
    {c \in BaseCalls :
        \/ c.op.name = "user_detail" /\ c.args[2] = [tag |-> "none"]
        \/ c.op.name = "user_edit_ai_show_settings"}

\* The responses the server gives.
ClientResponses ==
    {[status |-> 200, text |-> Ok(Body(TRUE, FALSE, "UserInfoDetailed"))],
     [status |-> 200, text |-> Ok(Body(TRUE, FALSE, "none"))],
     [status |-> 200, text |-> Ok(Body(TRUE, TRUE, "none"))]}

ClientInit ==
    /\ hosts \in Hosts
    /\ EmitIdle
    /\ ParamIdle
    /\ FoldIdle
    /\ CallIdle
    /\ IterIdle
    /\ DecodeIdle
    /\ tm \in TokenManagers
    /\ saved = None
    /\ update_lock = None
    /\ now = 0
    /\ th = [t \in Threads |-> ThreadIdle]

\* A caller invokes a generated base operation, which runs to its first
\* pending await: the section bodies, do_api_request, and with with_auth
\* get_access_token.
ApiCall(t) ==
    /\ th[t].pc = "idle"
    /\ \E call \in ClientCalls, auth \in BOOLEAN :
          LET fr == run_bodies(call.op, call.args, 1,
                               [maps |-> empty_maps(call.op), evals |-> <<>>,
                                seen |-> <<>>, pushes |-> <<>>])
              d == base_request(call.op, hosts, fr.maps, auth)
              rec == [ThreadIdle EXCEPT
                         !.kind = "api",
                         !.call = Some([name |-> call.op.name, args |-> call.args,
                                        return_type |-> call.op.return_type,
                                        auth |-> auth]),
                         !.dispatched = Some(d)]
          IN th' = [th EXCEPT ![t] =
                       IF needs_token(d.with_auth)
                          THEN get_access_token(rec, hosts, tm, saved, Utc_now)
                          ELSE SendHttp(rec, app_headers(hosts, d.headers))]
    /\ UNCHANGED <<hosts, paramVars, foldVars, emitVars, callVars, iterVars, decVars, tm, saved,
                   update_lock, now>>

\* A caller invokes AppPixivAPI::get_access_token itself.
TokenCall(t) ==
    /\ th[t].pc = "idle"
    /\ th' = [th EXCEPT ![t] =
                 get_access_token([ThreadIdle EXCEPT !.kind = "token"], hosts, tm,
                                  saved, Utc_now)]
    /\ UNCHANGED <<hosts, paramVars, foldVars, emitVars, callVars, iterVars, decVars, tm, saved,
                   update_lock, now>>

\* update_lock.lock().await completes.  Under the lock the saved token is
\* returned if another caller stored one (the guard is dropped), else the
\* refresh request is sent.
TmLock(t) ==
    /\ th[t].pc = "tm_lock"
    /\ update_lock = None
    /\ LET again == double_check(saved, Utc_now)
           rec == [th[t] EXCEPT !.locked = TRUE]
       IN IF again.k = "ok"
             THEN /\ th' = [th EXCEPT ![t] = after_token(rec, hosts, again)]
                  /\ update_lock' = None
             ELSE /\ th' = [th EXCEPT ![t] = [rec EXCEPT !.pc = "tm_refresh",
                                                         !.refreshed = @ + 1]]
                  /\ update_lock' = Some(t)
    /\ UNCHANGED <<hosts, paramVars, foldVars, emitVars, callVars, iterVars, decVars, tm, saved, now>>

\* Faulty variant: a failed refresh drops the saved token
store_or_clear(access_token_and_expires_at, res) ==
    IF res.k = "ok" THEN Some(res.v) ELSE None

\* get_access_token: `try_refresh_token(..).await?` leaves before
\* access_token_and_expires_at.store(Some(..)) unless it returned Ok.
store(access_token_and_expires_at, res) ==
    IF res.k = "ok" THEN Some(res.v) ELSE access_token_and_expires_at

\* The refresh request ends: the token is stored, or the error (or panic)
\* leaves get_access_token; the lock guard is dropped either way.
TmRefreshRespond(t) ==
    /\ th[t].pc = "tm_refresh"
    /\ \E reply \in RefreshReplies :
          LET res == try_refresh_token(reply, Utc_now)
          IN /\ saved' = store(saved, res)
             /\ th' = [th EXCEPT ![t] =
                          after_token(@, hosts, IF res.k = "ok"
                                                   THEN Ok(res.v.access_token) ELSE res)]
    /\ update_lock' = None
    /\ UNCHANGED <<hosts, paramVars, foldVars, emitVars, callVars, iterVars, decVars, tm, now>>

\* req.send().await ends in a transport error or in a response, which is
\* decoded; nothing shared is touched from here to the return.
HttpRespond(t) ==
    /\ th[t].pc = "http"
    /\ \E res \in {Err(E_Reqwest)} \cup {Ok(r) : r \in ClientResponses} :
          th' = [th EXCEPT ![t] = after_http(@, res)]
    /\ UNCHANGED <<hosts, paramVars, foldVars, emitVars, callVars, iterVars, decVars, tm, saved,
                   update_lock, now>>

\* The caller takes the result; it may call again.
Finish(t) ==
    /\ th[t].pc = "returned"
    /\ th' = [th EXCEPT ![t] = ThreadIdle]
    /\ UNCHANGED <<hosts, paramVars, foldVars, emitVars, callVars, iterVars, decVars, tm, saved,
                   update_lock, now>>

\* Time passes.
Tick ==
    /\ now < MaxTicks
    /\ now' = now + 1
    /\ UNCHANGED <<hosts, paramVars, foldVars, emitVars, callVars, iterVars, decVars, tm, saved,
                   update_lock, th>>

\* Callers of the generated base operations and of get_access_token.  The
\* clock stands still: what the passing of time does to the token cache is
\* SpecToken's.
ClientNext ==
    \E t \in Threads :
       \/ ApiCall(t)
       \/ TokenCall(t)
       \/ TmLock(t)
       \/ TmRefreshRespond(t)
       \/ HttpRespond(t)
       \/ Finish(t)

SpecClient == ClientInit /\ [][ClientNext]_vars

\* Callers of get_access_token alone, over time.
TokenNext ==
    \/ \E t \in Threads :
          \/ TokenCall(t)
          \/ TmLock(t)
          \/ TmRefreshRespond(t)
          \/ Finish(t)
    \/ Tick

SpecToken == ClientInit /\ [][TokenNext]_vars

(***************************************************************************)
(* Properties of the macro expansion (SpecEmit).                           *)
(***************************************************************************)
IsBaseOp(it) == it.item = "fn" /\ it.is_async
IsIterOp(it) == it.item = "fn" /\ ~it.is_async
NamesOf(q) == [i \in 1..Len(q) |-> q[i].name]
IterNamesOf(q) == [i \in 1..Len(q) |-> q[i].name \o "_iter"]

\* C7: the endpoints consumed so far have produced exactly one base operation
\* each, in order, and a `<name>_iter` operation exactly for those with a
\* Paged clause when the stream feature is on; none when it is off, and none
\* for an endpoint without a Paged clause.
C7_PaginatorEmission ==
    (parsed.ok /\ emit_pc \in {"loop", "done"}) =>
        LET eps == SubSeq(parsed.endpoints, 1, emit_idx)
            pagedEps == SelectSeq(eps, LAMBDA e : IsSome(e.paged))
            base == SelectSeq(expanded, IsBaseOp)
            iters == SelectSeq(expanded, IsIterOp)
        IN /\ NamesOf(base) = NamesOf(eps)
           /\ NamesOf(iters) = IF feature_stream THEN IterNamesOf(pagedEps) ELSE <<>>
           /\ Len(expanded) = Len(base) + Len(iters)

C7_Witness ==
    /\ emit_pc = "done"
    /\ feature_stream
    /\ parsed.ok
    /\ parsed.endpoints = <<E_user_illusts, E_user_detail>>
    /\ NamesOf(expanded) = <<"user_illusts", "user_illusts_iter", "user_detail">>

\* C20: when some part of the input violates the grammar, no generated
\* operation is ever part of the output, also when well-formed endpoints
\* come first, and the finished output is the one diagnostic alone.
C20_DefinitionErrorPolicy ==
    (\E i \in 1..Len(input) : IF i % 2 = 1 THEN ~input[i].well_formed
                                            ELSE input[i] # Semi) =>
        /\ \A j \in 1..Len(expanded) : expanded[j].item # "fn"
        /\ emit_pc # "loop"
        /\ emit_pc = "done" => expanded = <<[item |-> "compile_error"]>>

\* A paged endpoint, then tokens that do not parse.
C20_Witness ==
    /\ input = <<WellFormed(E_user_illusts), Semi, Malformed>>
    /\ feature_stream
    /\ emit_pc = "done"
    /\ expanded = <<[item |-> "compile_error"]>>

(***************************************************************************)
(* Properties of a call of a generated base operation (SpecCall).          *)
(***************************************************************************)
RECURSIVE FlatSpecs(_)
FlatSpecs(sections) ==
    IF sections = <<>> THEN <<>>
    ELSE [i \in 1..Len(Head(sections).entries) |->
             [kind |-> Head(sections).kind, spec |-> Head(sections).entries[i]]]
         \o FlatSpecs(Tail(sections))

CalledSpecs == FlatSpecs(EndpointNamed(Unwrap(call_op).name).sections)

\* The value the caller's argument stands for once the default is applied.
Defaulted(spec, arg) ==
    IF arg = VNone THEN Unwrap(spec.default) ELSE arg.v

\* The key the DSL declares for a ParamSpec.
DeclaredKey(spec) ==
    IF spec.key_override = None THEN spec.name ELSE spec.key_override[1]

HasPair(content, key, value) ==
    \E j \in 1..Len(content) : content[j] = [key |-> key, value |-> value]

\* C8: for every executed ParamSpec with a default D, the value pushed is D
\* when the argument was absent and the supplied value when it was present
\* (through the transmute when one is declared), and D has been evaluated
\* if and only if the argument was absent.
C8_DefaultSubstitution ==
    call_pc # "idle" =>
        \A i \in 1..call_idx :
            LET spec == CalledSpecs[i].spec
                arg == call_args[i]
                based == Defaulted(spec, arg)
                wire == IF IsSome(spec.transmute)
                           THEN eval_transmute(Unwrap(spec.transmute), based)
                           ELSE based
            IN IsSome(spec.default) =>
                  /\ call_pushes[i].value = wire
                  /\ (arg = VNone) <=>
                        (\E j \in 1..Len(call_evals) :
                            call_evals[j] = [name |-> spec.name,
                                             expr |-> Unwrap(spec.default)])
                  /\ wire.tag \in {"enum", "str", "u64", "app"} =>
                        HasPair(call_maps[CalledSpecs[i].kind], DeclaredKey(spec),
                                into_value(wire))

\* feed(limit = None, offset, note = Some("s")): one default used, one bypassed
C8_Witness ==
    /\ call_pc = "request"
    /\ Unwrap(call_op).name = "feed"
    /\ call_args[1] = VNone
    /\ call_args[3] = VSome(VStr("s"))
    /\ call_evals = <<[name |-> "limit", expr |-> VU64(30)]>>
    /\ HasPair(call_maps["data"], "note", VStr("s"))

\* C9: for every executed ParamSpec with default D and transmute F, F was
\* evaluated exactly once, on D when the argument was absent and on the
\* supplied value otherwise (never on an Option), and its result is the value
\* pushed.
C9_TransmuteOrdering ==
    call_pc # "idle" =>
        \A i \in 1..call_idx :
            LET spec == CalledSpecs[i].spec
                arg == call_args[i]
                inputs == SelectSeq(call_seen, LAMBDA r : r.name = spec.name)
            IN (IsSome(spec.default) /\ IsSome(spec.transmute)) =>
                  /\ Len(inputs) = 1
                  /\ inputs[1].input \notin {VNone, arg}
                  /\ inputs[1].input = IF arg = VNone THEN Unwrap(spec.default)
                                       ELSE arg.v
                  /\ call_pushes[i].value =
                        VApp(Unwrap(spec.transmute).f, inputs[1].input)

\* feed(limit = None, ..): the wire value is clamp(30)
C9_Witness ==
    /\ call_pc = "request"
    /\ Unwrap(call_op).name = "feed"
    /\ call_args[1] = VNone
    /\ HasPair(Unwrap(Unwrap(call_req).params), "lim", VApp("clamp", VU64(30)))

\* feed(limit = Some(7), ..): the wire value is clamp(7)
C9_WitnessPresent ==
    /\ call_pc = "request"
    /\ Unwrap(call_op).name = "feed"
    /\ HasPair(Unwrap(Unwrap(call_req).params), "lim", VApp("clamp", VU64(7)))

KeysOf(content) == [j \in 1..Len(content) |-> content[j].key]

\* The declared keys of the entries whose index is in J, in declaration order.
RECURSIVE KeysAt(_, _, _)
KeysAt(entries, J, i) ==
    IF i > Len(entries) THEN <<>>
    ELSE (IF i \in J THEN <<DeclaredKey(entries[i])>> ELSE <<>>)
         \o KeysAt(entries, J, i + 1)

SectionEntries(kind) ==
    Unwrap(find_section(EndpointNamed(Unwrap(call_op).name), kind)).entries

\* C10 as stated: when the request is dispatched every section map holds, in
\* declaration order, exactly one entry per ParamSpec of the section, keyed
\* by the declared key; only ParamSpecs with a transmute may be missing.
C10_OneEntryPerParamSpec ==
    call_pc \in {"request", "returned"} =>
        \A kind \in DOMAIN call_maps :
            LET entries == SectionEntries(kind)
                plain == {i \in 1..Len(entries) : entries[i].transmute = None}
            IN \E J \in SUBSET (1..Len(entries)) :
                  /\ plain \subseteq J
                  /\ KeysOf(call_maps[kind]) = KeysAt(entries, J, 1)

\* The pairs a pushed value leaves in a map: none for an absent value, one
\* per element for a slice, one otherwise.
WirePairs(key, value) ==
    LET v == IF value.tag = "some" THEN value.v ELSE value
    IN CASE v.tag = "none" -> <<>>
         [] v.tag = "list" ->
               [j \in 1..Len(v.items) |-> [key |-> key, value |-> VStr(v.items[j])]]
         [] OTHER -> <<[key |-> key, value |-> into_value(v)]>>

RECURSIVE PairsOfPushes(_, _)
PairsOfPushes(pushes, kind) ==
    IF pushes = <<>> THEN <<>>
    ELSE (IF Head(pushes).kind = kind
             THEN WirePairs(Head(pushes).key, Head(pushes).value) ELSE <<>>)
         \o PairsOfPushes(Tail(pushes), kind)

\* C10 (amended): every executed ParamSpec has made exactly one push, in
\* declaration order, into the map of its section and under its declared
\* key; each map holds, in push order, one pair for a pushed present scalar,
\* no pair for a pushed absent value and one pair per element of a pushed
\* slice.
C10_OnePushPerParamSpec ==
    call_pc # "idle" =>
        /\ Len(call_pushes) = call_idx
        /\ \A i \in 1..call_idx :
              /\ call_pushes[i].kind = CalledSpecs[i].kind
              /\ call_pushes[i].key = DeclaredKey(CalledSpecs[i].spec)
        /\ \A kind \in DOMAIN call_maps :
              call_maps[kind] = PairsOfPushes(call_pushes, kind)

\* illust_related(7, None, Some([t1, t2]), None, None): `offset` leaves no
\* pair although it has no transmute, `seed_illust_ids` leaves two.
C10_Witness ==
    /\ call_pc = "request"
    /\ Unwrap(call_op).name = "illust_related"
    /\ call_args = <<VU64(7), VNone, VSome(VList(<<"t1", "t2">>)), VNone, VNone>>
    /\ Unwrap(Unwrap(call_req).params) =
          <<[key |-> "illust_id", value |-> VStr("7")],
            [key |-> "filter", value |-> VStr("for_ios")],
            [key |-> "seed_illust_ids[]", value |-> VStr("t1")],
            [key |-> "seed_illust_ids[]", value |-> VStr("t2")]>>

Declares(endpoint, kind) ==
    \E i \in 1..Len(endpoint.sections) : endpoint.sections[i].kind = kind

\* C11: no request exists before the section bodies have run; from then on
\* the operation has dispatched exactly the one do_api_request call made of
\* the endpoint's method, host followed by the literal path, no headers,
\* the caller's with_auth, the `params` map as query map exactly when a
\* section `params` is declared and the `data` map as form map exactly when
\* a section `data` is declared.
C11_BaseDispatch ==
    /\ call_pc \in {"idle", "bodies"} => call_req = None
    /\ call_pc \in {"request", "returned"} =>
          LET endpoint == EndpointNamed(Unwrap(call_op).name)
          IN call_req =
                Some([method |-> endpoint.method,
                      url |-> hosts \o endpoint.url,
                      headers |-> None,
                      params |-> IF Declares(endpoint, "params")
                                    THEN Some(call_maps["params"]) ELSE None,
                      data |-> IF Declares(endpoint, "data")
                                  THEN Some(call_maps["data"]) ELSE None,
                      with_auth |-> call_auth])

\* illust_bookmark_add through a proxy host: a form map and no query map.
C11_Witness ==
    /\ call_pc = "returned"
    /\ hosts = "https://proxy.example"
    /\ call_auth
    /\ Unwrap(call_op).name = "illust_bookmark_add"
    /\ Unwrap(call_req).url = "https://proxy.example/v2/illust/bookmark/add"
    /\ Unwrap(call_req).method = "POST"
    /\ Unwrap(call_req).params = None
    /\ Unwrap(call_req).data # None

\* feed: both maps are passed.
C11_WitnessBoth ==
    /\ call_pc = "request"
    /\ Unwrap(call_op).name = "feed"
    /\ Unwrap(call_req).params # None
    /\ Unwrap(call_req).data # None

(***************************************************************************)
(* Properties of a paginator run (Spec, SpecLive).                         *)
(***************************************************************************)
ItemEvents == SelectSeq(events, LAMBDA e : e.ev = "item")
ErrEvents == SelectSeq(events, LAMBDA e : e.ev = "err")
Yielded == [i \in 1..Len(ItemEvents) |-> ItemEvents[i].item]

\* Items and cursor of a fetched page, read through the fields of the Paged
\* clause of the endpoint.
PagedOf == EndpointNamed(Unwrap(iter_op).base).paged[1]
ItemsOfPage(page) == page[PagedOf.field]
CursorOfPage(page) ==
    page[IF PagedOf.next_url = None THEN "next_url" ELSE PagedOf.next_url[1]]

RECURSIVE Concat(_)
Concat(ps) == IF ps = <<>> THEN <<>> ELSE ItemsOfPage(Head(ps)) \o Concat(Tail(ps))

IsPrefix(p, q) == Len(p) <= Len(q) /\ SubSeq(q, 1, Len(p)) = p
Ends(n) == [i \in 1..n |-> EvEnd]
AsItems(q) == [i \in 1..Len(q) |-> EvItem(q[i])]

\* C1: when the generator has returned and no request has failed, the
\* fetched pages form a chain whose last page alone lacks a cursor, the
\* consumer has received exactly the items of the pages in order followed
\* only by end-of-stream answers, and no request was made beyond one per
\* page (also after further pulls of the ended stream).
C1_Draining ==
    (pc = "done" /\ failure = None) =>
        /\ Len(pages) >= 1
        /\ \A i \in 1..Len(pages) : (CursorOfPage(pages[i]) = None) <=> (i = Len(pages))
        /\ EndPulls >= 1
        /\ events = AsItems(Concat(pages)) \o Ends(EndPulls)
        /\ Len(requests) = Len(pages)

\* Page 1 = [a, b] with a cursor, page 2 = [c] without: a, b, c, end, and
\* one more pull answered by end.
C1_Witness ==
    /\ pc = "done"
    /\ failure = None
    /\ Len(pages) = 2
    /\ Len(ItemsOfPage(pages[1])) = 2
    /\ Len(ItemsOfPage(pages[2])) = 1
    /\ events = <<EvItem(<<1, 1>>), EvItem(<<1, 2>>), EvItem(<<2, 1>>), EvEnd, EvEnd>>
    /\ Len(requests) = 2

\* C2: once a request has failed, it is the last request made, the consumer
\* has received the items of the pages decoded before it, in order, then
\* that error, then nothing but end-of-stream answers.
C2_FailurePropagation ==
    failure # None =>
        /\ pc \in {"err", "done"}
        /\ Len(requests) = Len(pages) + 1
        /\ events = AsItems(Concat(pages)) \o <<EvErr(failure[1])>> \o Ends(EndPulls)
        /\ (pc = "err") <=> (EndPulls = 0)

\* The first request fails (k = 1), or the third does (k = 3).
C2_Witness ==
    /\ failure = Some("RateLimited")
    /\ pc = "done"
    /\ Len(requests) = 3
    /\ Len(Concat(pages)) = 3
    /\ EndPulls = 2

C2_WitnessFirst ==
    /\ failure = Some("Reqwest")
    /\ Len(requests) = 1
    /\ events = <<EvErr("Reqwest"), EvEnd>>

\* C3: in every state the items yielded so far are a prefix of the items of
\* the pages fetched so far, page after page and in page order; what is left
\* of the current page is the remainder of that concatenation.
C3_Ordering ==
    pc # "idle" =>
        /\ IsPrefix(Yielded, Concat(pages))
        /\ Yielded \o result_items = Concat(pages)

\* Two pages fetched, the second one partly yielded.
C3_Witness ==
    /\ pc = "loop"
    /\ Len(pages) = 2
    /\ Yielded = <<<<1, 1>>, <<1, 2>>, <<2, 1>>>>
    /\ result_items = <<<<2, 2>>>>

Terminal == pc \in {"done", "err"}

\* C4 as stated: whatever the server does, a consumer that keeps pulling
\* reaches Done or Failed.
C4_AlwaysTerminates == <>Terminal

\* C4 (amended): a consumer that keeps pulling reaches Done or Failed, or
\* else follow-up requests are issued forever (every page carries a cursor).
C4_TerminatesOrFetchesForever == <>Terminal \/ []<>(pc = "next")

C4_Witness ==
    /\ ~observe
    /\ pc = "done"
    /\ next_url = None
    /\ iter_op # None

\* C5: request i + 1 is the follow-up request of page i: page i carries a
\* cursor, and the request is a GET of exactly that cursor, without headers,
\* query map or form map, with the caller's with_auth flag, decoded as the
\* endpoint's return type.  Every page with a cursor has its follow-up
\* request unless it is the last page and still being yielded, and there is
\* at most one request beyond the pages fetched.
C5_FollowUpRequest ==
    pc # "idle" =>
        /\ Len(requests) \in {Len(pages), Len(pages) + 1}
        /\ \A i \in 1..Len(pages) :
              /\ i < Len(requests) =>
                    /\ CursorOfPage(pages[i]) # None
                    /\ requests[i + 1] =
                          [req |-> [method |-> "GET",
                                    url |-> CursorOfPage(pages[i])[1],
                                    headers |-> None, params |-> None,
                                    data |-> None, with_auth |-> with_auth],
                           decode |-> EndpointNamed(Unwrap(iter_op).base).return_type]
              /\ (CursorOfPage(pages[i]) # None /\ i >= Len(requests)) =>
                    (i = Len(pages) /\ pc = "loop")

\* An authenticated run through a proxy host: two follow-up requests, each
\* against its own cursor.
C5_Witness ==
    /\ with_auth
    /\ hosts = "https://proxy.example"
    /\ Len(requests) = 3
    /\ requests[2].req.url = "https://app-api.pixiv.net/v1/next?offset=30"
    /\ requests[3].req.url = "https://app-api.pixiv.net/v1/next?offset=60"
    /\ requests[3].req.with_auth

\* C6: no request exists before the first pull; a request is issued only
\* within a pull and only when the current page has no item left; a pull
\* made while an item is left is answered by that item without a request.
C6_Laziness ==
    [][/\ pulls' = 0 => requests' = <<>>
       /\ Len(requests') > Len(requests) =>
             /\ pulling'
             /\ result_items = <<>>
             /\ pulling \/ pulls' = pulls + 1
       /\ (pulls' = pulls + 1 /\ result_items # <<>>) =>
             /\ requests' = requests
             /\ events' = Append(events, EvItem(Head(result_items)))
             /\ ~pulling']_vars

\* The second item of the first page was obtained with the one request made.
C6_Witness ==
    /\ pc = "loop"
    /\ pulls = 2
    /\ Len(requests) = 1
    /\ Yielded = <<<<1, 1>>, <<1, 2>>>>

(***************************************************************************)
(* Properties of parse_response_into (SpecDecode).                         *)
(***************************************************************************)
Resp == Unwrap(response)
Parsed == Unwrap(parse_result)

\* C18 as stated: every response with status 429 gives RateLimited, every
\* response with status 404 gives NotFound, both without structural
\* decoding; every other status is structurally decoded.
C18_StatusSpecialCasing ==
    parse_result # None =>
        /\ Resp.status = 429 => (Parsed.out.k = "err" /\ Parsed.out.e.kind = "RateLimited"
                                  /\ ~Parsed.parsed)
        /\ Resp.status = 404 => (Parsed.out.k = "err" /\ Parsed.out.e.kind = "NotFound"
                                  /\ ~Parsed.parsed)
        /\ Resp.status \notin {429, 404} => Parsed.parsed

\* C18 (amended): the same for every response whose body was read; a
\* response whose body cannot be read gives the reqwest error of the read,
\* whatever its status, and is not decoded.
C18_StatusSpecialCasingOfReadBodies ==
    parse_result # None =>
        /\ Resp.text.k = "err" => (Parsed.out = Resp.text /\ ~Parsed.parsed)
        /\ Resp.text.k = "ok" =>
              /\ Resp.status = 429 =>
                    (Parsed.out = Err(E_RateLimited(Resp.text.v)) /\ ~Parsed.parsed)
              /\ Resp.status = 404 =>
                    (Parsed.out = Err(E_NotFound(Resp.text.v)) /\ ~Parsed.parsed)
              /\ Resp.status \notin {429, 404} => Parsed.parsed

\* A 404 whose body would decode as T.
C18_Witness ==
    /\ parse_result # None
    /\ Resp.status = 404
    /\ Resp.ty = "UserInfoDetailed"
    /\ Resp.text = Ok(Body(TRUE, FALSE, "UserInfoDetailed"))
    /\ Parsed.out = Err(E_NotFound(Body(TRUE, FALSE, "UserInfoDetailed")))

\* C19: for a status other than 429 and 404 and a body that was read, a
\* JSON object with the `error` key gives ErrResponse, a body that does not
\* decode and has no such key gives Serde with the body, and a success
\* never carries an error payload.
C19_DecoderErrorKinds ==
    (parse_result # None /\ Resp.status \notin {429, 404} /\ Resp.text.k = "ok") =>
        LET body == Resp.text.v
        IN /\ (body.json /\ body.error) => Parsed.out = Err(E_ErrResponse(body))
           /\ (~from_str(Resp.ty, body) /\ ~(body.json /\ body.error)) =>
                  Parsed.out = Err(E_Serde(body))
           /\ Parsed.out.k = "ok" => ~(body.json /\ body.error)


(***************************************************************************)
(* Properties of the client (SpecClient, SpecToken).                       *)
(***************************************************************************)
ApiThreads == {t \in Threads : th[t].kind = "api"}
Auth(t) == Unwrap(th[t].call).auth
HasAuthorization(req) == \E h \in req.headers : h.name = "authorization"

\* C12: a base operation whose dispatch fails (get_access_token fails, the
\* token is no header value, or the transport fails) returns that error, with
\* no decoder call and no second request; one whose decoding fails returns
\* the decoder's error; nothing is retried and no error becomes a success.
C12_ErrorPropagation ==
    \A t \in ApiThreads :
       LET r == th[t]
       IN /\ Len(r.sent) <= 1
          /\ r.decoded <= 1
          /\ r.pc = "returned" =>
                /\ (IsSome(r.token) /\ Unwrap(r.token).k # "ok") =>
                      r.result = r.token /\ r.sent = <<>> /\ r.decoded = 0
                /\ (IsSome(r.token) /\ Unwrap(r.token).k = "ok" /\ r.sent = <<>>) =>
                      /\ r.result = Some(Err(E_BadAccessToken(Unwrap(r.token).v)))
                      /\ r.decoded = 0
                /\ (IsSome(r.http) /\ Unwrap(r.http).k = "err") =>
                      r.result = r.http /\ r.decoded = 0
                /\ r.decoded = 1 =>
                      /\ IsSome(r.http) /\ Unwrap(r.http).k = "ok"
                      /\ r.result = Some(parse_response_into(
                                            Unwrap(r.call).return_type,
                                            Unwrap(r.http).v.status,
                                            Unwrap(r.http).v.text).out)
                /\ Unwrap(r.result).k = "ok" => r.decoded = 1 /\ Len(r.sent) = 1

\* One call has returned its transport error, another its decoder's error.
C12_Witness ==
    \E t, u \in ApiThreads :
       /\ th[t].pc = "returned" /\ th[t].http = Some(Err(E_Reqwest))
       /\ th[t].result = Some(Err(E_Reqwest))
       /\ th[u].pc = "returned" /\ th[u].decoded = 1
       /\ Unwrap(th[u].result).k = "err"

\* C13: get_access_token is invoked only for a request with with_auth; without
\* it no token is looked up or refreshed and the request carries no
\* Authorization header; with it get_access_token is invoked exactly once,
\* and before the request is sent.
C13_TokenSupplierGating ==
    \A t \in ApiThreads :
       LET r == th[t]
       IN /\ Unwrap(r.dispatched).with_auth = Auth(t)
          /\ ~Auth(t) =>
                /\ r.tok_calls = 0 /\ r.token = None
                /\ ~r.locked /\ r.refreshed = 0
                /\ \A i \in 1..Len(r.sent) : ~HasAuthorization(r.sent[i])
          /\ Auth(t) =>
                /\ r.tok_calls = 1
                /\ \A i \in 1..Len(r.sent) :
                      /\ IsSome(r.token) /\ Unwrap(r.token).k = "ok"
                      /\ [name |-> "authorization",
                          value |-> "Bearer " \o Unwrap(r.token).v] \in r.sent[i].headers

\* A request without with_auth and one with it have both been sent.
C13_Witness ==
    \E t, u \in ApiThreads :
       /\ ~Auth(t) /\ Len(th[t].sent) = 1
       /\ Auth(u) /\ Len(th[u].sent) = 1

\* C14: on a client made by new_no_auth every get_access_token returns
\* NoAuth, and every call with with_auth fails with NoAuth and sends no
\* HTTP request.
C14_NoAuthClient ==
    tm = TM_NoAuth =>
       \A t \in Threads :
          /\ IsSome(th[t].token) => th[t].token = Some(Err(E_NoAuth))
          /\ th[t].kind = "token" =>
                th[t].pc = "returned" /\ th[t].result = Some(Err(E_NoAuth))
          /\ (th[t].kind = "api" /\ Auth(t)) =>
                /\ th[t].pc = "returned"
                /\ th[t].result = Some(Err(E_NoAuth))
                /\ th[t].sent = <<>>

\* A get_access_token call and a call with with_auth have both failed.
C14_Witness ==
    /\ tm = TM_NoAuth
    /\ \E t \in ApiThreads, u \in Threads :
          /\ Auth(t) /\ th[t].pc = "returned" /\ th[t].result = Some(Err(E_NoAuth))
          /\ th[u].kind = "token" /\ th[u].result = Some(Err(E_NoAuth))

\* C15: on a TokenManager made by new_from_access_token(t) every
\* get_access_token, in any number and order, returns exactly t and no
\* refresh is ever requested.
C15_AccessTokenClient ==
    tm.kind = "AccessToken" =>
       \A t \in Threads :
          /\ th[t].pc \in {"idle", "returned"}
          /\ th[t].refreshed = 0 /\ ~th[t].locked
          /\ th[t].pc = "returned" => th[t].result = Some(Ok(tm.access_token))
          /\ saved = None

\* Every caller holds the token at once.
C15_Witness ==
    /\ tm.kind = "AccessToken"
    /\ \A t \in Threads :
          th[t].pc = "returned" /\ th[t].result = Some(Ok(tm.access_token))

\* C16: of the concurrent get_access_token calls on a RefreshToken manager at
\* most one has a refresh request in flight, and a refresh is in flight only
\* while no unexpired token is saved: a caller that gets the lock after
\* another has stored a token that is still unexpired returns that token and
\* sends no refresh request.
C16_RefreshUnderLock ==
    /\ Cardinality({t \in Threads : th[t].pc = "tm_refresh"}) <= 1
    /\ \A t \in Threads :
          /\ th[t].pc = "tm_refresh" =>
                /\ update_lock = Some(t)
                /\ try_get_saved_token(saved, Utc_now).k # "ok"
          /\ th[t].refreshed <= 1
          /\ (th[t].pc = "returned" /\ th[t].locked /\ th[t].refreshed = 0) =>
                Unwrap(th[t].result).k = "ok"

\* A caller waited for the lock, found the token another caller had stored
\* and returned it without a refresh of its own.
C16_Witness ==
    \E t, u \in Threads :
       /\ t # u
       /\ th[u].pc = "returned" /\ th[u].refreshed = 1
       /\ Unwrap(th[u].result).k = "ok"
       /\ th[t].pc = "returned" /\ th[t].locked /\ th[t].refreshed = 0
       /\ th[t].result = th[u].result
       /\ IsSome(saved) /\ th[t].result = Some(Ok(Unwrap(saved).access_token))
\* The request of a call is a function of its operation, its arguments and
\* its flag, whatever the other callers do.
OwnRequest ==
    \A t, u \in ApiThreads :
       /\ th[t].call = th[u].call => th[t].dispatched = th[u].dispatched
       /\ Unwrap(th[t].dispatched).with_auth = Auth(t)
       /\ Unwrap(th[t].dispatched).url
             = hosts \o EndpointNamed(Unwrap(th[t].call).name).url

\* C17 as stated: base operations run concurrently on one client, each
\* call's request depends on its own arguments and the client's configuration
\* only, and the calls share no mutable state: what they can all reach stays
\* as the constructor left it.
C17_NoSharedMutableState ==
    /\ OwnRequest
    /\ saved = None
    /\ update_lock = None

\* C17, amended: each call's request depends on its own arguments and the
\* client's configuration only; the state the concurrent calls share is the
\* token cache of a RefreshToken client, which only calls with with_auth
\* read, which is written only by the caller holding update_lock, and which
\* no call on a NoAuth or AccessToken client touches.
C17_SharedStateIsTokenCache ==
    /\ OwnRequest
    /\ \A t \in ApiThreads :
          ~Auth(t) => th[t].tok_calls = 0 /\ ~th[t].locked /\ th[t].refreshed = 0
    /\ \A t \in Threads : th[t].pc = "tm_refresh" <=> update_lock = Some(t)
    /\ tm.kind # "RefreshToken" =>
          /\ saved = None /\ update_lock = None
          /\ \A t \in Threads : ~th[t].locked /\ th[t].refreshed = 0

\* Two base operations are in flight at once, and the one carries the token
\* the other's refresh has stored.
C17_Witness ==
    \E t, u \in ApiThreads :
       /\ th[t].pc = "http" /\ th[u].pc = "http"
       /\ th[t].call # th[u].call
       /\ th[t].refreshed = 1 /\ th[u].refreshed = 0
       /\ IsSome(saved)
       /\ th[t].token = Some(Ok(Unwrap(saved).access_token))
       /\ th[u].token = th[t].token

\* C28 as stated: whatever expires_in the token endpoint returns, the refresh
\* ends with the expiry now + (L - 300), L being expires_in when positive and
\* 3600 otherwise, the subtraction L - 300 never underflowing: no refresh
\* ends in a panic, and every saved expiry is such a sum.
C28_TokenLifetime ==
    /\ \A t \in Threads : th[t].token # Some(Panicked)
    /\ IsSome(saved) =>
          \E n \in 0..MaxTicks, L \in {DEFAULT_EXPIRES_IN, 900, 100} :
             Unwrap(saved).expires_at = n * 1800 + L - TOKEN_REFRESH_SAFE_MARGIN

\* C29: when the refresh request of a RefreshToken manager fails,
\* get_access_token returns the failure, the saved token and expiry are what
\* they were, and update_lock is free, so that the next caller refreshes for
\* itself; and a token is returned only while it is saved and unexpired.
C29_FailedRefresh ==
    [][\A t \in Threads :
          /\ (th[t].pc = "tm_refresh" /\ th'[t].pc # "tm_refresh"
              /\ Unwrap(th'[t].token).k # "ok") =>
                /\ th'[t].pc = "returned"
                /\ th'[t].result = th'[t].token
                /\ saved' = saved
                /\ update_lock' = None
          /\ (th[t].pc # "returned" /\ th'[t].pc = "returned"
              /\ th'[t].kind = "token" /\ tm.kind = "RefreshToken"
              /\ Unwrap(th'[t].result).k = "ok") =>
                /\ IsSome(saved')
                /\ Unwrap(th'[t].result).v = Unwrap(saved').access_token
                /\ Unwrap(saved').expires_at > Utc_now]_vars

\* A refresh has failed while an expired token was saved; the token is still
\* saved, and the next caller has a refresh of its own in flight.
C29_Witness ==
    \E t, u \in Threads :
       /\ th[t].pc = "returned" /\ th[t].refreshed = 1
       /\ Unwrap(th[t].result).k = "err"
       /\ th[u].pc = "tm_refresh"
       /\ IsSome(saved) /\ Unwrap(saved).expires_at <= Utc_now

LastPage == pages[Len(pages)]

\* C30: whether the paginator goes on is decided by the cursor of the page
\* alone.  A page without items and with a cursor gives the consumer nothing
\* and its follow-up request is issued in the pull that fetched it; a page
\* without cursor ends the sequence after its items, the first page too; and
\* a sequence that has ended without failure has a last page without cursor,
\* while a page with a cursor whose items are used up is followed up by the
\* next pull.
C30_CursorDecides ==
    /\ [](pc # "idle" =>
             /\ (pc = "done" /\ failure = None) => CursorOfPage(LastPage) = None
             /\ (Len(pages) >= 1 /\ failure = None /\ ItemsOfPage(LastPage) = <<>>
                 /\ CursorOfPage(LastPage) # None) =>
                   Len(requests) = Len(pages) + 1)
    /\ [][Len(pages') > Len(pages) =>
             LET page == pages'[Len(pages')]
             IN /\ (ItemsOfPage(page) = <<>> /\ CursorOfPage(page) # None) =>
                      /\ events' = events
                      /\ pulls' = pulls
                      /\ pulling'
                      /\ Len(requests') = Len(requests) + 1
                      /\ requests'[Len(requests')].req.url = Unwrap(CursorOfPage(page))
                /\ (ItemsOfPage(page) = <<>> /\ CursorOfPage(page) = None) =>
                      /\ events' = Append(events, EvEnd)
                      /\ requests' = requests
                      /\ pc' = "done"
                /\ ItemsOfPage(page) # <<>> =>
                      /\ events' = Append(events, EvItem(Head(ItemsOfPage(page))))
                      /\ requests' = requests]_vars
    /\ [][(pc = "loop" /\ result_items = <<>> /\ pulls' = pulls + 1) =>
             IF next_url = None
                THEN pc' = "done" /\ requests' = requests
                     /\ events' = Append(events, EvEnd)
                ELSE pc' = "next" /\ events' = events
                     /\ Len(requests') = Len(requests) + 1]_vars

\* The first page is empty and has a cursor: after one pull two requests
\* have been made and the consumer has received nothing.
C30_Witness ==
    /\ Len(pages) = 1
    /\ ItemsOfPage(pages[1]) = <<>>
    /\ CursorOfPage(pages[1]) # None
    /\ pulls = 1
    /\ Len(requests) = 2
    /\ events = <<>>
    /\ pc = "next"

\* The first page has items and no cursor: the sequence has ended after them.
C30_WitnessFirstPageLast ==
    /\ Len(pages) = 1
    /\ Len(ItemsOfPage(pages[1])) = 2
    /\ CursorOfPage(pages[1]) = None
    /\ events = <<EvItem(<<1, 1>>), EvItem(<<1, 2>>), EvEnd>>
    /\ Len(requests) = 1

(***************************************************************************)
(* Properties of ParamSpec::parse (SpecParam).                             *)
(***************************************************************************)
\* The entry starts with `name [@ "key"] : Type`; Clauses is what follows.
TypeAt == CHOOSE i \in 1..Len(tokens) : tokens[i].t = "type"
HeadOk ==
    /\ \E i \in 1..Len(tokens) : tokens[i].t = "type"
    /\ IsPunct(tokens[TypeAt - 1], ":")
Clauses == SubSeq(tokens, TypeAt + 1, Len(tokens))
FatArrow == <<Tk_Punct("=", TRUE), Tk_Punct(">", FALSE)>>
Entry == Unwrap(param_spec)

\* C21: after the type a `=` starts a default clause only when it is not
\* followed by `>`: `name: Type => t` gives no default and transmute t,
\* `name: Type = d` gives default d and no transmute, `name: Type = d => t`
\* gives both, and `name: Type` gives neither.
C21_DefaultLookahead ==
    (param_spec # None /\ HeadOk) =>
        /\ \A e \in {"d", "t"} :
              /\ Clauses = FatArrow \o <<Tk_Expr(e)>> =>
                    /\ Entry.k = "ok"
                    /\ Entry.v.default = None /\ Entry.v.transmute = Some(e)
              /\ Clauses = <<Tk_Punct("=", FALSE), Tk_Expr(e)>> =>
                    /\ Entry.k = "ok"
                    /\ Entry.v.default = Some(e) /\ Entry.v.transmute = None
              /\ \A f \in {"d", "t"} :
                    Clauses = <<Tk_Punct("=", FALSE), Tk_Expr(e)>> \o FatArrow
                              \o <<Tk_Expr(f)>> =>
                       /\ Entry.k = "ok"
                       /\ Entry.v.default = Some(e) /\ Entry.v.transmute = Some(f)
        /\ Clauses = <<>> =>
              Entry.k = "ok" /\ Entry.v.default = None /\ Entry.v.transmute = None
        /\ (Entry.k = "ok" /\ Entry.v.default # None) =>
              /\ Len(Clauses) >= 2
              /\ IsPunct(Clauses[1], "=") /\ ~IsPunct(Clauses[2], ">")
              /\ Clauses[2] = Tk_Expr(Unwrap(Entry.v.default))
        /\ (Entry.k = "ok" /\ Entry.v.transmute # None) =>
              \E i \in 1..Len(Clauses) - 2 :
                 SubSeq(Clauses, i, i + 2)
                    = FatArrow \o <<Tk_Expr(Unwrap(Entry.v.transmute))>>

\* `type_ @ "type": u64 => t` has been parsed: transmute only.
C21_Witness ==
    /\ param_spec # None
    /\ tokens = <<Tk_Ident("type_"), Tk_Punct("@", FALSE), Tk_LitStr("type"),
                  Tk_Punct(":", FALSE), Tk_Type(T_u64)>> \o FatArrow \o <<Tk_Expr("t")>>
    /\ Entry = Ok(ParamSpec("type_", Some("type"), T_u64, None, Some("t")))

(***************************************************************************)
(* Properties of ApiEndpoints::parse (SpecEmit).                           *)
(***************************************************************************)
\* Endpoint (";" Endpoint)* ";"? : endpoints at the odd places, `;` at the
\* even ones, at least one endpoint.
Separated(ts) ==
    \A i \in 1..Len(ts) : IF i % 2 = 1 THEN ts[i].well_formed ELSE ts[i] = Semi
OneOrMoreEndpoints(ts) == Len(ts) >= 1 /\ Separated(ts)
RECURSIVE EndpointsOf(_)
EndpointsOf(ts) ==
    IF ts = <<>> THEN <<>>
    ELSE (IF Head(ts).well_formed THEN <<Head(ts).endpoint>> ELSE <<>>)
         \o EndpointsOf(Tail(ts))

\* C22: the parser accepts the input exactly when it is one or more
\* endpoints separated by `;` with at most one trailing `;`, and then yields
\* the endpoints in source order; an input with no endpoint is rejected.
C22_TopLevelGrammar ==
    emit_pc # "parse" =>
        /\ parsed.ok <=> OneOrMoreEndpoints(input)
        /\ parsed.ok => parsed.endpoints = EndpointsOf(input)

\* The same without the demand for a first endpoint: what the parser does.
C22_ZeroOrMoreEndpoints ==
    emit_pc # "parse" =>
        /\ parsed.ok <=> Separated(input)
        /\ parsed.ok => parsed.endpoints = EndpointsOf(input)

\* The empty invocation has been accepted and expanded to nothing.
C22_EmptyAccepted ==
    /\ input = <<>>
    /\ emit_pc = "done"
    /\ parsed.ok
    /\ expanded = <<>>

(***************************************************************************)
(* Properties of the lifetime elaboration (SpecFold, SpecEmit).            *)
(***************************************************************************)
\* The lifetimes of the reference sub-types of a type, outermost first and
\* left to right: None where a reference names none.
RECURSIVE RefsOf(_)
RECURSIVE RefsOfAll(_)
RefsOf(ty) ==
    CASE ty.k = "ref" -> <<ty.lifetime>> \o RefsOf(ty.elem)
      [] ty.k = "slice" -> RefsOf(ty.elem)
      [] OTHER -> RefsOfAll(ty.args)
RefsOfAll(tys) ==
    IF tys = <<>> THEN <<>> ELSE RefsOf(Head(tys)) \o RefsOfAll(Tail(tys))

\* For each of these references, whether no reference around it names a
\* lifetime in the declaration.
RECURSIVE Outermost(_, _)
RECURSIVE OutermostAll(_, _)
Outermost(ty, free) ==
    CASE ty.k = "ref" -> <<free>> \o Outermost(ty.elem, free /\ ty.lifetime = None)
      [] ty.k = "slice" -> Outermost(ty.elem, free)
      [] OTHER -> OutermostAll(ty.args, free)
OutermostAll(tys, free) ==
    IF tys = <<>> THEN <<>>
    ELSE Outermost(Head(tys), free) \o OutermostAll(Tail(tys), free)

NoDuplicates(q) == \A i, j \in 1..Len(q) : q[i] = q[j] => i = j
Named(refs) == [i \in 1..Len(SelectSeq(refs, IsSome)) |->
                   Unwrap(SelectSeq(refs, IsSome)[i])]
Declared == RefsOfAll(param_types)
First == elaborated[1]
Second == elaborated[2]
InGenerics(run, lifetime) == \E g \in 1..Len(run.generics) : run.generics[g] = lifetime

\* C23: after the elaboration every reference sub-type of every parameter
\* type names a lifetime that is in the generics of the fn, a lifetime the
\* declaration names is kept, and this holds as well for a reference without
\* lifetime beneath a reference that names one.
C23_EveryReferenceMarked ==
    elaborated # <<>> =>
        LET refs == RefsOfAll(First.tys)
        IN /\ Len(refs) = Len(Declared)
           /\ \A i \in 1..Len(refs) :
                 /\ IsSome(refs[i])
                 /\ InGenerics(First, Unwrap(refs[i]))
                 /\ IsSome(Declared[i]) => refs[i] = Declared[i]

\* The same for the references that no lifetime-naming reference encloses:
\* what the folder does.
C23_OutermostMarked ==
    elaborated # <<>> =>
        LET refs == RefsOfAll(First.tys)
            free == OutermostAll(param_types, TRUE)
        IN /\ Len(refs) = Len(Declared)
           /\ \A i \in 1..Len(refs) :
                 /\ free[i] => IsSome(refs[i]) /\ InGenerics(First, Unwrap(refs[i]))
                 /\ ~free[i] \/ IsSome(Declared[i]) => refs[i] = Declared[i]

\* `p1: &'x &str` has been elaborated: the inner reference names no lifetime.
C23_InnerUnmarked ==
    /\ param_types = <<T_named("'x", T_str)>>
    /\ elaborated # <<>>
    /\ First.tys = param_types
    /\ First.generics = <<"'a0", "'x">>

\* C24: the generics of the fn hold each lifetime at most once, also when
\* the declaration names one lifetime on several references or names `'a1`
\* or `'a0`, and they are `'a0` and then the lifetimes of the references in
\* traversal order.
C24_NoDuplicateLifetimes ==
    elaborated # <<>> =>
        /\ NoDuplicates(First.generics)
        /\ \A i \in 1..Len(Named(RefsOfAll(First.tys))) :
              InGenerics(First, Named(RefsOfAll(First.tys))[i])

\* `p1: &'x str, p2: &'x str` has been elaborated to fn f<'a0, 'x, 'x>.
C24_DuplicateDeclared ==
    /\ param_types = <<T_named("'x", TPath("str", <<>>)), T_named("'x", TPath("str", <<>>))>>
    /\ elaborated # <<>>
    /\ First.generics = <<"'a0", "'x", "'x">>

\* `p1: &str, p2: &'a1 str` has been elaborated to fn f<'a0, 'a1, 'a1>.
C24_SynthesizedNotFresh ==
    /\ param_types = <<T_str, T_named("'a1", TPath("str", <<>>))>>
    /\ elaborated # <<>>
    /\ First.generics = <<"'a0", "'a1", "'a1">>

\* C25: the elaboration applied to the types it has produced leaves every
\* type unchanged and gives the same generics as the first application,
\* nested references included.
C25_Idempotent ==
    Len(elaborated) = 2 => Second = First

\* The types alone: the second application changes none.
C25_TypesUnchanged ==
    Len(elaborated) = 2 => Second.tys = First.tys

\* `p1: & &str`: <'a0, 'a1, 'a2> the first time, <'a0, 'a1> the second.
C25_NestedLost ==
    /\ param_types = <<TRef(None, T_str)>>
    /\ Len(elaborated) = 2
    /\ First.generics = <<"'a0", "'a1", "'a2">>
    /\ Second.tys = First.tys
    /\ Second.generics = <<"'a0", "'a1">>

\* C26 as stated: a parameter type that is not a reference is left
\* unchanged, and parameters of such types alone add nothing to the generics.
C26_NonReferenceUntouched ==
    elaborated # <<>> =>
        /\ \A i \in 1..Len(param_types) :
              param_types[i].k # "ref" => First.tys[i] = param_types[i]
        /\ (\A i \in 1..Len(param_types) : param_types[i].k # "ref") =>
              First.generics = <<"'a0">>

\* C26: a parameter type without any reference sub-type is left unchanged
\* and parameters of such types alone add nothing to the generics; a type
\* that is not a reference is traversed, and the references in its generic
\* arguments or slice element that no lifetime-naming reference encloses get
\* a lifetime that is in the generics.
C26_ReferenceFreeUntouched ==
    elaborated # <<>> =>
        /\ \A i \in 1..Len(param_types) :
              RefsOf(param_types[i]) = <<>> => First.tys[i] = param_types[i]
        /\ Declared = <<>> => First.generics = <<"'a0">>
        /\ \A i \in 1..Len(param_types) :
              param_types[i].k # "ref" =>
                 LET refs == RefsOf(First.tys[i])
                     free == Outermost(param_types[i], TRUE)
                 IN /\ Len(refs) = Len(free)
                    /\ \A r \in 1..Len(refs) :
                          free[r] => /\ IsSome(refs[r])
                                     /\ InGenerics(First, Unwrap(refs[r]))

\* `p1: Option<&str>, p2: u64` has been elaborated.
C26_Witness ==
    /\ param_types = <<T_Option(T_str), T_u64>>
    /\ elaborated # <<>>
    /\ First.tys = <<T_Option(T_named("'a1", TPath("str", <<>>))), T_u64>>
    /\ First.generics = <<"'a0", "'a1">>

\* The endpoint a generated fn was expanded from, and its declared types.
SourceOf(f) == CHOOSE e \in Endpoints : e.name = IF f.is_async THEN f.name ELSE f.base
DeclaredTypes(e) == [i \in 1..Len(FlatSpecs(e.sections)) |-> FlatSpecs(e.sections)[i].spec.ty]
TypesOf(f) == [i \in 1..Len(f.fn_params) |-> f.fn_params[i].ty]
Markers(n) == [i \in 1..n |-> "'a" \o ToString(i)]
Fns == {j \in 1..Len(expanded) : expanded[j].item = "fn"}

\* C27: for every fn generated, whatever was expanded before it, the
\* synthesized lifetimes are 'a1, 'a2, ... in traversal order of the
\* references of its parameter types, the generics are 'a0 and then these,
\* and two fns whose endpoints declare the same parameter types have the
\* same elaborated types and generics.
C27_PerEndpointCounter ==
    \A j \in Fns :
       LET f == expanded[j]
           refs == RefsOfAll(TypesOf(f))
       IN /\ Len(refs) = Len(RefsOfAll(DeclaredTypes(SourceOf(f))))
          /\ \A r \in 1..Len(refs) : IsSome(refs[r])
          /\ Named(refs) = Markers(Len(refs))
          /\ f.generics = <<"'a0">> \o Markers(Len(refs))
          /\ \A i \in Fns :
                DeclaredTypes(SourceOf(expanded[i])) = DeclaredTypes(SourceOf(f)) =>
                   /\ TypesOf(expanded[i]) = TypesOf(f)
                   /\ expanded[i].generics = f.generics

\* `feed`, with two references, has been expanded after `user_illusts`, with
\* one.
C27_Witness ==
    /\ input = <<WellFormed(E_user_illusts), Semi, WellFormed(E_feed)>>
    /\ emit_pc = "done"
    /\ feature_stream
    /\ expanded[2].generics = <<"'a0", "'a1">>
    /\ expanded[3].name = "feed"
    /\ expanded[3].generics = <<"'a0", "'a1", "'a2">>
    /\ expanded[4].generics = <<"'a0", "'a1", "'a2">>
====
